---------------------------- MODULE Spec2Model ----------------------------
(***************************************************************************)
(* A model of the forecast-intelligence layer of SnowDesk:                 *)
(*   - the powder alert check          (lib/alerts.js, checkPowderAlerts)  *)
(*   - the forecast and summary caches (lib/cache.js)                      *)
(*   - the batched forecast loader     (lib/dataLoader.js)                 *)
(* Times are milliseconds as returned by Date.now().  Snowfall amounts and *)
(* thresholds are hundredths of a centimetre, so that 15.24 cm is 1524.    *)
(***************************************************************************)
EXTENDS Integers, Sequences, FiniteSets, TLC

VARIABLES
    now,            \* the value Date.now() returns
    ticks,          \* how many times the clock has been advanced
    forecasts,      \* the forecast collection: resort id -> forecast snapshot
    settings,       \* the saved threshold configuration
    permission,     \* Notification.permission ("unsupported": no Notification API)
    alertLog,       \* the alert log handed from one alert pass to the next
    pass,           \* the alert pass that has just returned: its inputs and outcome
    notifs,         \* every notification dispatched so far: <<id, at>>
    passes,         \* number of alert passes run
    forecastCache,  \* cache.js forecastCache: resort id -> [data, timestamp]
    summaryCache,   \* cache.js summaryCache: <<resort id, UTC date>> -> summary
    calls,          \* the cache calls made so far, in the order they began
    fetches,        \* number of fetchFn invocations so far
    settled,        \* number of fetchFn invocations that have settled
    resorts,        \* the resort list (resorts.json): records [id, tier]
    loadingStates,  \* resort id -> 'idle' | 'loading' | 'done' | 'error'
    loads,          \* loadSingleForecast calls awaiting their fetch
    loader,         \* the loadTier1Forecasts call: where it stands
    batchLog,       \* the batches started so far: ids, start, time all settled
    pauses,         \* number of inter-batch timers set so far
    fails,          \* number of fetches that have failed
    justSettled,    \* ids whose loadSingleForecast promise settled in the last step
    trace,          \* resort id -> what the loads of that resort did, in order
    view,           \* the route shown: the view mounted and, for a detail view, its resort
    refs,           \* the Dashboard's forecastsRef, settingsRef and alertLogRef
    checks,         \* the alert evaluations run after a bulk load: what each one read
    arg,            \* the arguments of the last call of a pure library function
    ret             \* what that call returned

clockVars == <<now, ticks>>
configVars == <<forecasts, settings, permission>>
alertVars == <<alertLog, pass, notifs, passes>>
cacheVars == <<forecastCache, summaryCache, calls, fetches, settled>>
loadVars == <<resorts, loadingStates, loads, loader, batchLog, pauses, fails, justSettled,
              trace>>
uiVars == <<view, refs, checks>>
pureVars == <<arg, ret>>
vars == <<now, ticks, forecasts, settings, permission, alertLog, pass, notifs, passes,
          forecastCache, summaryCache, calls, fetches, settled,
          resorts, loadingStates, loads, loader, batchLog, pauses, fails, justSettled,
          trace, view, refs, checks, arg, ret>>

--------------------------------------------------------------------------
(* Bounds of the model *)

MaxTicks == 2
MaxPasses == 2
MaxResorts == 2
MaxCalls == 3
MaxList == 29
MaxFails == 1
MaxAppList == 7
MaxDashList == 3
MaxSeries == 76
MaxDays == 3
\* Date.now() when the program starts: one hour before a UTC midnight
StartNow == 169200000

--------------------------------------------------------------------------
(* Program constants *)

ALERT_COOLDOWN_MS == 6 * 60 * 60 * 1000

\* the literal fallback of `defaultThreshold ?? 15.24`
FallbackThreshold == 1524

\* CM_TO_INCHES = 0.3937, as a number of 1/10000
CM_TO_INCHES_E4 == 3937

Undefined == 0 - 1

\* NaN, or a missing value (undefined): every comparison with it is false
NaN == 0 - 999999

\* null, as JSON gives it for a missing number: it counts as 0 in a
\* comparison and in arithmetic
Null == 0 - 888888

\* ToNumber(v) of a number or null
Num(v) == IF v = Null THEN 0 ELSE v

Lt(a, b) == a # NaN /\ b # NaN /\ Num(a) < Num(b)
Le(a, b) == a # NaN /\ b # NaN /\ Num(a) <= Num(b)
Gt(a, b) == a # NaN /\ b # NaN /\ Num(a) > Num(b)
Ge(a, b) == a # NaN /\ b # NaN /\ Num(a) >= Num(b)

\* v ?? d
CoalesceNullOnly(v, d) == IF v = Null THEN d ELSE v

Coalesce(v, d) == IF v = Null \/ v = NaN THEN d ELSE v

--------------------------------------------------------------------------
(* The clock *)

Tick(steps) ==
    /\ ticks < MaxTicks
    /\ \E d \in steps : now' = now + d
    /\ ticks' = ticks + 1

--------------------------------------------------------------------------
(* Alerts: lib/alerts.js *)

\* resort ids of the alert and cache checks; OtherId is in no resort list
OtherId == 99

ResortIds == {1, 2}
LogIds == ResortIds \cup {OtherId}

\* The empty object {}
EmptyObj == [k \in {} |-> 0]

\* obj[key], undefined when the key is absent
Lookup(obj, key) == IF key \in DOMAIN obj THEN obj[key] ELSE Undefined

\* { ...obj, [key]: value }
PutAlone(obj, key, value) == [k \in {key} |-> value]

Put(obj, key, value) ==
    [k \in DOMAIN obj \cup {key} |-> IF k = key THEN value ELSE obj[k]]

\* A forecast: its daily block may lack snowfall_sum
NoDaily == [fetchId |-> 0, hasSnow |-> FALSE, snow |-> <<>>]
Daily(s) == [fetchId |-> 0, hasSnow |-> TRUE, snow |-> s]

\* forecast.daily?.snowfall_sum?.slice(0, 2) ?? []
Next2Days(forecast) ==
    IF forecast.hasSnow
    THEN SubSeq(forecast.snow, 1, IF Len(forecast.snow) < 2 THEN Len(forecast.snow) ELSE 2)
    ELSE <<>>

\* Math.max(...xs) of a non-empty list of numbers
RECURSIVE MathMax(_)
MathMax(xs) ==
    IF Len(xs) = 1 THEN Num(xs[1])
    ELSE LET m == MathMax(Tail(xs))
         IN IF xs[1] = NaN \/ m = NaN THEN NaN
            ELSE IF Num(xs[1]) >= m THEN Num(xs[1]) ELSE m

\* thresholds[id] !== undefined ? thresholds[id] : (defaultThreshold ?? 15.24)
ResolveThresholdDefault(thresholds, defaultThreshold, id) ==
    IF defaultThreshold # Undefined THEN defaultThreshold ELSE FallbackThreshold

ResolveThreshold(thresholds, defaultThreshold, id) ==
    IF Lookup(thresholds, id) # Undefined
    THEN thresholds[id]
    ELSE IF defaultThreshold # Undefined THEN defaultThreshold ELSE FallbackThreshold

\* (alertLog ?? {})[resort.id] ?? 0 : read from the log passed in
LastAlerted(in, acc, id) ==
    IF id \in DOMAIN in.alertLog THEN in.alertLog[id] ELSE 0

\* maxSnow >= threshold && Date.now() - lastAlerted > ALERT_COOLDOWN_MS
ShouldFireGe(maxSnow, threshold, at, lastAlerted) ==
    Ge(maxSnow, threshold) /\ at - lastAlerted >= ALERT_COOLDOWN_MS

ShouldFire(maxSnow, threshold, at, lastAlerted) ==
    Ge(maxSnow, threshold) /\ at - lastAlerted > ALERT_COOLDOWN_MS

\* (maxSnow * CM_TO_INCHES).toFixed(1), in tenths of an inch
SnowfallIn(maxSnow) == (maxSnow * CM_TO_INCHES_E4 + 500000) \div 1000000

\* if (!forecast) continue
SkipAndStop(acc) == [acc EXCEPT !.threw = TRUE]

Skip(acc) == acc

\* an entry of the resorts list that is null: reading its id throws
NullResort == 0

\* try { ... } catch (err) around one iteration of the loop
IterationUncaught == FALSE

IterationCaught == TRUE

\* console.error calls of a location that fired: the Notification
\* constructor and the callback are each in a try ... catch of their own
\* whether updatedLog is a copy of the alertLog passed in (a spread), or
\* the same object
LogIsAlias == FALSE

LogIsCopy == TRUE

\* updatedLog[resort.id] = Date.now(); acc.input is the object passed in
WriteLogZero(acc, id, at) ==
    [acc EXCEPT !.log = Put(@, id, 0)]

WriteLog(acc, id, at) ==
    [acc EXCEPT !.log = Put(@, id, at),
                !.input = IF LogIsCopy THEN @ ELSE Put(@, id, at)]

\* whether an exception of the Notification constructor is caught where it
\* is thrown
DispatchUncaught == FALSE

DispatchCaught == TRUE

FireErrors(id, in) ==
    (IF in.ctorThrows THEN <<<<id, "notification">>>> ELSE <<>>)
        \o (IF in.onAlertFired = "throws" THEN <<<<id, "callback">>>> ELSE <<>>)

\* One iteration of the loop over the resorts.  acc is what the pass has
\* produced so far: the updated log, the Notification constructor calls,
\* the notifications that were shown, the onAlertFired calls, the errors
\* that were caught and logged, and whether an exception left the function.
AlertOne(id, in, acc) ==
    IF id = NullResort
    THEN IF IterationCaught THEN [acc EXCEPT !.errors = Append(@, <<id, "check">>)]
         ELSE [acc EXCEPT !.threw = TRUE]
    ELSE IF id \notin DOMAIN in.forecasts THEN Skip(acc)
    ELSE
      LET threshold == ResolveThreshold(in.thresholds, in.defaultThreshold, id)
          next2Days == Next2Days(in.forecasts[id])
      IN IF Len(next2Days) = 0 THEN acc
         ELSE
           LET maxSnow == MathMax(next2Days)
               lastAlerted == LastAlerted(in, acc, id)
           IN IF ShouldFire(maxSnow, threshold, in.at, lastAlerted)
              THEN IF in.ctorThrows /\ ~DispatchCaught
                   THEN [acc EXCEPT !.fired = Append(@, <<id, SnowfallIn(maxSnow)>>),
                                    !.errors = Append(@, <<id, "check">>)]
                   ELSE [WriteLog(acc, id, in.at) EXCEPT
                           !.fired = Append(@, <<id, SnowfallIn(maxSnow)>>),
                           !.shown = IF in.ctorThrows THEN @
                                     ELSE Append(@, <<id, in.at>>),
                           !.cbs = IF in.onAlertFired = "none" THEN @
                                   ELSE Append(@, <<id, SnowfallIn(maxSnow)>>),
                           !.errors = @ \o FireErrors(id, in)]
              ELSE acc

RECURSIVE AlertLoop(_, _, _)
AlertLoop(rs, in, acc) ==
    IF rs = <<>> \/ acc.threw THEN acc
    ELSE AlertLoop(Tail(rs), in, AlertOne(Head(rs), in, acc))

\* checkPowderAlerts(in): the whole synchronous pass
CheckPowderAlertsUnguarded(in) ==
    AlertLoop(in.resorts, in,
              [log |-> in.alertLog, input |-> in.alertLog, fired |-> <<>>,
               shown |-> <<>>, cbs |-> <<>>, errors |-> <<>>, threw |-> FALSE])

CheckPowderAlerts(in) ==
    LET start == [log |-> in.alertLog, input |-> in.alertLog, fired |-> <<>>,
                  shown |-> <<>>, cbs |-> <<>>, errors |-> <<>>, threw |-> FALSE]
    IN IF in.permission # "granted" THEN start
       ELSE AlertLoop(in.resorts, in, start)

\* The inputs an alert pass is run on
ResortLists == UNION {[1..n -> ResortIds] : n \in 0..MaxResorts}

SnowR1 == {<<1524>>, <<1000, 800>>, <<0, 2000, 3000>>}

ForecastChoices ==
    LET f1 == {EmptyObj} \cup {[k \in {1} |-> v] : v \in {NoDaily} \cup {Daily(s) : s \in SnowR1}}
        f2 == {[k \in {2} |-> Daily(<<2000, 0>>)]}
    IN {[k \in DOMAIN a \cup DOMAIN b |-> IF k \in DOMAIN a THEN a[k] ELSE b[k]] :
           a \in f1, b \in f2}

SettingsChoices ==
    { [thresholds |-> EmptyObj, defaultThreshold |-> Undefined],
      [thresholds |-> EmptyObj, defaultThreshold |-> 2000],
      [thresholds |-> [k \in {1} |-> 1000], defaultThreshold |-> 2000],
      [thresholds |-> [k \in {1} |-> 2540], defaultThreshold |-> Undefined] }

Permissions == {"granted", "denied"}

InitLogs ==
    { [k \in {1, OtherId} |-> IF k = 1 THEN 0 ELSE 12345],
      [k \in {1} |-> StartNow - 1000] }

NoPass ==
    [ran |-> FALSE, resorts |-> <<>>, alertLog |-> EmptyObj,
     ctorThrows |-> FALSE, onAlertFired |-> "none", at |-> 0,
     log |-> EmptyObj, input |-> EmptyObj, fired |-> <<>>, shown |-> <<>>,
     cbs |-> <<>>, errors |-> <<>>, threw |-> FALSE]

\* One alert pass on the log returned by the previous one; the log it
\* returns becomes the log of the next pass.
AlertPass(lists, env) ==
    /\ passes < MaxPasses
    /\ \E rs \in lists, e \in env :
         LET in == [resorts |-> rs, forecasts |-> forecasts,
                    thresholds |-> settings.thresholds,
                    defaultThreshold |-> settings.defaultThreshold,
                    alertLog |-> alertLog, permission |-> permission,
                    ctorThrows |-> e[1], onAlertFired |-> e[2], at |-> now]
             out == CheckPowderAlerts(in)
         IN /\ pass' = [ran |-> TRUE, resorts |-> rs, alertLog |-> alertLog,
                        ctorThrows |-> e[1], onAlertFired |-> e[2], at |-> now,
                        log |-> out.log, fired |-> out.fired, shown |-> out.shown,
                        cbs |-> out.cbs, errors |-> out.errors, threw |-> out.threw,
                        input |-> out.input]
            /\ alertLog' = IF out.threw THEN alertLog ELSE out.log
            /\ notifs' = notifs \o out.shown
    /\ passes' = passes + 1
    /\ UNCHANGED <<clockVars, configVars>>

\* The forecast collection, the saved settings and the notification
\* permission change between passes.
SetForecasts ==
    /\ \E fc \in ForecastChoices : fc # forecasts /\ forecasts' = fc
    /\ pass' = NoPass
    /\ UNCHANGED <<clockVars, settings, permission, alertLog, notifs, passes>>

UpdateSettings ==
    /\ \E st \in SettingsChoices : st # settings /\ settings' = st
    /\ pass' = NoPass
    /\ UNCHANGED <<clockVars, forecasts, permission, alertLog, notifs, passes>>

SetPermission ==
    /\ \E p \in Permissions : p # permission /\ permission' = p
    /\ pass' = NoPass
    /\ UNCHANGED <<clockVars, forecasts, settings, alertLog, notifs, passes>>

AlertSteps == {1, ALERT_COOLDOWN_MS}

TickAlert ==
    /\ Tick(AlertSteps)
    /\ pass' = NoPass
    /\ UNCHANGED <<configVars, alertLog, notifs, passes>>

AlertEnv == {<<FALSE, "none">>, <<FALSE, "ok">>}

Pass == AlertPass(ResortLists, AlertEnv)

InitClock == now = StartNow /\ ticks = 0

\* buildInitialState: no forecasts; settings and alert log as saved
InitApp(savedSettings, savedLogs, perms) ==
    /\ forecasts = EmptyObj
    /\ settings \in savedSettings
    /\ permission \in perms
    /\ alertLog \in savedLogs
    /\ pass = NoPass
    /\ notifs = <<>>
    /\ passes = 0

\* DEFAULT_SETTINGS, nothing saved
DefaultSettings == [thresholds |-> EmptyObj, defaultThreshold |-> FallbackThreshold]

InitAppFresh == InitApp({DefaultSettings}, {EmptyObj}, {"denied"})

\* cache.js: both module-level maps start empty
InitCache ==
    /\ forecastCache = EmptyObj
    /\ summaryCache = EmptyObj
    /\ calls = <<>>
    /\ fetches = 0
    /\ settled = 0

\* no route has been rendered yet
NoView == [route |-> "none", id |-> 0, fetchStarted |-> FALSE]

\* useRef(forecasts), useRef(settings), useRef(alertLog) before the
\* Dashboard has rendered
NoRefs == [forecasts |-> EmptyObj, settings |-> DefaultSettings, alertLog |-> EmptyObj]

\* no pure library function has been called yet
NoCall == [fn |-> "none"]

\* the loader has not been called
LoaderIdle == [pc |-> "idle", i |-> 0, timerDue |-> 0]

InitLoad(lists) ==
    /\ resorts \in lists
    /\ loadingStates = EmptyObj
    /\ loads = {}
    /\ loader = LoaderIdle
    /\ batchLog = <<>>
    /\ pauses = 0
    /\ fails = 0
    /\ justSettled = {}
    /\ trace = EmptyObj
    /\ view = NoView
    /\ refs = NoRefs
    /\ checks = <<>>
    /\ arg = NoCall
    /\ ret = NoCall

InitAlert ==
    InitClock /\ InitApp(SettingsChoices, InitLogs, Permissions) /\ InitCache /\ InitLoad({<<>>})

NextAlert ==
    \/ Pass /\ UNCHANGED <<cacheVars, loadVars, uiVars, pureVars>>
    \/ TickAlert /\ UNCHANGED <<cacheVars, loadVars, uiVars, pureVars>>
    \/ SetForecasts /\ UNCHANGED <<cacheVars, loadVars, uiVars, pureVars>>
    \/ UpdateSettings /\ UNCHANGED <<cacheVars, loadVars, uiVars, pureVars>>
    \/ SetPermission /\ UNCHANGED <<cacheVars, loadVars, uiVars, pureVars>>

SpecAlert == InitAlert /\ [][NextAlert]_vars

\* One call of checkPowderAlerts on any input: the list may hold a null
\* entry, the Notification API may be absent or its permission undecided,
\* the Notification constructor and the callback may throw.
CheckLists == UNION {[1..n -> ResortIds \cup {NullResort}] : n \in 0..MaxResorts}

PermissionStates == {"granted", "denied", "default", "absent"}

CheckEnv == {FALSE, TRUE} \X {"none", "ok", "throws"}

CheckOnce ==
    /\ passes = 0
    /\ AlertPass(CheckLists, CheckEnv)
    /\ UNCHANGED <<cacheVars, loadVars, uiVars, pureVars>>

InitCheck ==
    /\ InitClock
    /\ forecasts \in ForecastChoices
    /\ settings \in SettingsChoices
    /\ permission \in PermissionStates
    /\ alertLog \in InitLogs
    /\ pass = NoPass
    /\ notifs = <<>>
    /\ passes = 0
    /\ InitCache
    /\ InitLoad({<<>>})

NextCheck == CheckOnce

SpecCheck == InitCheck /\ [][NextCheck]_vars

--------------------------------------------------------------------------
(* Caches: lib/cache.js *)

CACHE_TTL_MS == 60 * 60 * 1000

DAY_MS == 24 * 60 * 60 * 1000

CacheKeys == {1, 2}

SummaryIds == {1}

\* what fetchFn number n resolves with: a forecast snapshot of its own
FetchedForecast(n) == [fetchId |-> n, hasSnow |-> TRUE, snow |-> <<2000, 0>>]

\* new Date().toISOString().split('T')[0]: the UTC calendar day of `at`
UtcDate(at) == at \div DAY_MS

\* `${resortId}_${today}`
SummaryKeyNoDate(resortId, at) == <<resortId, 0>>

SummaryKey(resortId, at) == <<resortId, UtcDate(at)>>

\* cached && Date.now() - cached.timestamp < CACHE_TTL_MS
FreshLe(cache, key, at) ==
    key \in DOMAIN cache /\ at - cache[key].timestamp <= CACHE_TTL_MS

Fresh(cache, key, at) ==
    key \in DOMAIN cache /\ at - cache[key].timestamp < CACHE_TTL_MS

\* { data, timestamp: Date.now() }
NewEntryNoTime(data, at) == [data |-> data, timestamp |-> 0]

NewEntry(data, at) == [data |-> data, timestamp |-> at]

\* the entry a call finds for its key when it begins
NoEntry == [has |-> FALSE, data |-> FetchedForecast(0), timestamp |-> 0]
Seen(cache, key) ==
    IF key \in DOMAIN cache
    THEN [has |-> TRUE, data |-> cache[key].data, timestamp |-> cache[key].timestamp]
    ELSE NoEntry

\* the call in flight whose fetch a new call for the key joins (0: none).
\* The module keeps no record of the fetches in flight, so a call that
\* misses always invokes fetchFn itself.
JoinInFlightCoalesced(key) ==
    IF \E i \in 1..Len(calls) :
          calls[i].fn = "forecast" /\ calls[i].id = key /\ calls[i].state = "pending"
    THEN (CHOOSE i \in 1..Len(calls) :
             calls[i].fn = "forecast" /\ calls[i].id = key /\ calls[i].state = "pending")
    ELSE 0

JoinInFlight(key) == 0

\* getCachedForecast(resortId, fetchFn), up to its return or its await
BeginForecast(key) ==
    /\ Len(calls) < MaxCalls
    /\ IF Fresh(forecastCache, key, now)
       THEN /\ calls' = Append(calls,
                 [fn |-> "forecast", id |-> key, date |-> 0, began |-> now, settledBefore |-> settled,
                  seen |-> Seen(forecastCache, key), state |-> "hit", fetchId |-> 0,
                  result |-> forecastCache[key].data, doneAt |-> now, doneSeq |-> 0])
            /\ UNCHANGED fetches
       ELSE LET shared == JoinInFlight(key)
                fid == IF shared = 0 THEN fetches + 1 ELSE calls[shared].fetchId
            IN /\ calls' = Append(calls,
                     [fn |-> "forecast", id |-> key, date |-> 0, began |-> now, settledBefore |-> settled,
                      seen |-> Seen(forecastCache, key), state |-> "pending", fetchId |-> fid,
                      result |-> FetchedForecast(0), doneAt |-> 0, doneSeq |-> 0])
               /\ fetches' = IF shared = 0 THEN fetches + 1 ELSE fetches
    /\ UNCHANGED <<forecastCache, summaryCache, settled>>

\* what a failed fetchFn leaves in the cache: the await throws, so the
\* set() that follows it is never reached
AfterRejectEvicts(cache, key, at) == [k \in DOMAIN cache \ {key} |-> cache[k]]

AfterRejectStores(cache, key, at) == Put(cache, key, NewEntry(FetchedForecast(0), at))

AfterReject(cache, key, at) == cache

\* the fetchFn of a pending getCachedForecast call resolves
ResolveForecast(i) ==
    /\ calls[i].fn = "forecast" /\ calls[i].state = "pending"
    /\ LET data == FetchedForecast(calls[i].fetchId)
       IN /\ forecastCache' = Put(forecastCache, calls[i].id, NewEntry(data, now))
          /\ calls' = [calls EXCEPT ![i].state = "resolved", ![i].result = data,
                                    ![i].doneAt = now, ![i].doneSeq = settled + 1]
    /\ settled' = settled + 1
    /\ UNCHANGED <<summaryCache, fetches>>

\* the fetchFn of a pending getCachedForecast call fails
RejectForecast(i) ==
    /\ calls[i].fn = "forecast" /\ calls[i].state = "pending"
    /\ forecastCache' = AfterReject(forecastCache, calls[i].id, now)
    /\ calls' = [calls EXCEPT ![i].state = "rejected", ![i].doneAt = now,
                              ![i].doneSeq = settled + 1]
    /\ settled' = settled + 1
    /\ UNCHANGED <<summaryCache, fetches>>

\* what fetchFn number n resolves with for a summary: a text of its own
FetchedSummary(n) == [fetchId |-> n, text |-> "summary"]

SeenSummary(key) ==
    IF key \in DOMAIN summaryCache
    THEN [has |-> TRUE, data |-> summaryCache[key], timestamp |-> 0]
    ELSE [has |-> FALSE, data |-> FetchedSummary(0), timestamp |-> 0]

\* getCachedSummary(resortId, fetchFn), up to its return or its await
BeginSummary(resortId) ==
    /\ Len(calls) < MaxCalls
    /\ LET key == SummaryKey(resortId, now)
       IN IF key \in DOMAIN summaryCache
          THEN /\ calls' = Append(calls,
                    [fn |-> "summary", id |-> resortId, date |-> key[2], began |-> now,
                     settledBefore |-> settled, seen |-> SeenSummary(key), state |-> "hit",
                     fetchId |-> 0, result |-> summaryCache[key], doneAt |-> now,
                     doneSeq |-> 0])
               /\ UNCHANGED fetches
          ELSE /\ calls' = Append(calls,
                    [fn |-> "summary", id |-> resortId, date |-> key[2], began |-> now,
                     settledBefore |-> settled, seen |-> SeenSummary(key),
                     state |-> "pending", fetchId |-> fetches + 1,
                     result |-> FetchedSummary(0), doneAt |-> 0, doneSeq |-> 0])
               /\ fetches' = fetches + 1
    /\ UNCHANGED <<forecastCache, summaryCache, settled>>

\* the fetchFn of a pending getCachedSummary call resolves: the summary is
\* stored under the key computed when the call began
ResolveSummary(i) ==
    /\ calls[i].fn = "summary" /\ calls[i].state = "pending"
    /\ LET summary == FetchedSummary(calls[i].fetchId)
       IN /\ summaryCache' = Put(summaryCache, <<calls[i].id, calls[i].date>>, summary)
          /\ calls' = [calls EXCEPT ![i].state = "resolved", ![i].result = summary,
                                    ![i].doneAt = now, ![i].doneSeq = settled + 1]
    /\ settled' = settled + 1
    /\ UNCHANGED <<forecastCache, fetches>>

\* the fetchFn of a pending getCachedSummary call fails
RejectSummary(i) ==
    /\ calls[i].fn = "summary" /\ calls[i].state = "pending"
    /\ summaryCache' = AfterReject(summaryCache, <<calls[i].id, calls[i].date>>, now)
    /\ calls' = [calls EXCEPT ![i].state = "rejected", ![i].doneAt = now,
                              ![i].doneSeq = settled + 1]
    /\ settled' = settled + 1
    /\ UNCHANGED <<forecastCache, fetches>>

CacheSteps == {1, CACHE_TTL_MS - 1}

TickCache == Tick(CacheSteps) /\ UNCHANGED cacheVars

InitCacheSpec == InitClock /\ InitAppFresh /\ InitCache /\ InitLoad({<<>>})

NextCache ==
    \/ \E k \in CacheKeys : BeginForecast(k) /\ UNCHANGED <<clockVars, configVars, alertVars, loadVars, uiVars, pureVars>>
    \/ \E k \in SummaryIds : BeginSummary(k) /\ UNCHANGED <<clockVars, configVars, alertVars, loadVars, uiVars, pureVars>>
    \/ \E i \in 1..Len(calls) : ResolveForecast(i) /\ UNCHANGED <<clockVars, configVars, alertVars, loadVars, uiVars, pureVars>>
    \/ \E i \in 1..Len(calls) : RejectForecast(i) /\ UNCHANGED <<clockVars, configVars, alertVars, loadVars, uiVars, pureVars>>
    \/ \E i \in 1..Len(calls) : ResolveSummary(i) /\ UNCHANGED <<clockVars, configVars, alertVars, loadVars, uiVars, pureVars>>
    \/ \E i \in 1..Len(calls) : RejectSummary(i) /\ UNCHANGED <<clockVars, configVars, alertVars, loadVars, uiVars, pureVars>>
    \/ TickCache /\ UNCHANGED <<configVars, alertVars, loadVars, uiVars, pureVars>>

SpecCache == InitCacheSpec /\ [][NextCache]_vars

--------------------------------------------------------------------------
(* Loader: lib/dataLoader.js *)

BATCH_SIZE == 10

BATCH_DELAY_MS == 200

\* resorts.json as the loader sees it: the resort at position p has id p,
\* and every sixth resort is an on-demand (tier 2) resort
ResortList(n) == [p \in 1..n |-> [id |-> p, tier |-> IF p % 6 = 0 THEN 2 ELSE 1]]

\* list lengths giving 0, 1, 10, 11 and (for 29) 25 tier-1 resorts
ListSizes == {0, 1, BATCH_SIZE + 1, BATCH_SIZE + 3, MaxList}

IsAnyTier(r) == TRUE

IsTier1(r) == r.tier = 1

\* resorts.filter((r) => r.tier === 1)
Tier1(rs) == SelectSeq(rs, IsTier1)

\* tier1.slice(i, i + BATCH_SIZE)
Batch(tier1, i) ==
    SubSeq(tier1, i + 1, IF i + BATCH_SIZE < Len(tier1) THEN i + BATCH_SIZE ELSE Len(tier1))

\* if (i + BATCH_SIZE < tier1.length): a pause follows the batch at i
PauseNeededAlways(i, len) == TRUE

PauseNeeded(i, len) == i + BATCH_SIZE < len

\* setTimeout(resolve, BATCH_DELAY_MS): the timer set at `due - delay` fires
TimerElapsedAtOnce(due, at) == TRUE

TimerElapsed(due, at) == at >= due

\* catch (err) { ...; setLoadingState(resort.id, 'error') }
AfterFailureForgets(states, id) == states

AfterFailure(states, id) == Put(states, id, "error")

\* try { ... } catch (err) { ... }: a failed fetch is caught inside
\* loadSingleForecast, whose promise is fulfilled all the same
Uncaught == FALSE

Caught == TRUE

\* what the loads of resort id have done so far
Events(tr, id) == IF id \in DOMAIN tr THEN tr[id] ELSE <<>>

\* setLoadingState(resort.id, 'loading'), then fetchFn is invoked
MissEvents == <<"loading", "fetch">>

\* setLoadingState(resort.id, 'loading'); the cache answers; setForecast;
\* setLoadingState(resort.id, 'done')
HitEvents == <<"loading", "setForecast", "done">>

\* the fetch resolved: setForecast(resort.id, data), then
\* setLoadingState(resort.id, 'done')
SuccessEventsDoneFirst == <<"fetched", "done", "setForecast">>

SuccessEvents == <<"fetched", "setForecast", "done">>

\* the fetch failed: console.error, then setLoadingState(resort.id, 'error')
FailureEventsRefetch == <<"failed", "fetch", "failed", "error">>

FailureEvents == <<"failed", "error">>

\* the loop of loadTier1Forecasts once every load of the batch at i has
\* settled: pause before the next batch, or return after the last one
AfterBatch(i, log) ==
    /\ batchLog' = log
    /\ IF PauseNeeded(i, Len(Tier1(resorts)))
       THEN /\ loader' = [pc |-> "pause", i |-> i, timerDue |-> now + BATCH_DELAY_MS]
            /\ pauses' = pauses + 1
       ELSE /\ loader' = [pc |-> "returned", i |-> i, timerDue |-> 0]
            /\ pauses' = pauses

\* the batch at i starts: loadSingleForecast is called for each of its
\* resorts in turn (status 'loading', then getCachedForecast), and the
\* calls that found a fresh cache entry run to their end at once
StartBatchOn(i, states, tr) ==
    LET batch == Batch(Tier1(resorts), i)
        ids == [k \in 1..Len(batch) |-> batch[k].id]
        missIdx == {k \in 1..Len(batch) : ~Fresh(forecastCache, ids[k], now)}
        misses == {ids[k] : k \in missIdx}
        hits == {ids[k] : k \in 1..Len(batch)} \ misses
        rank(k) == Cardinality({m \in missIdx : m <= k})
        entry == [ids |-> ids, startedAt |-> now, settledAt |-> Undefined]
    IN /\ loadingStates' =
             [x \in DOMAIN states \cup hits \cup misses |->
                 IF x \in misses THEN "loading"
                 ELSE IF x \in hits THEN "done" ELSE states[x]]
       /\ forecasts' =
             [x \in DOMAIN forecasts \cup hits |->
                 IF x \in hits THEN forecastCache[x].data ELSE forecasts[x]]
       /\ loads' = loads \cup
             {[id |-> ids[k], fetchId |-> fetches + rank(k), by |-> "bulk"] : k \in missIdx}
       /\ fetches' = fetches + Cardinality(missIdx)
       /\ justSettled' = hits
       /\ trace' =
             [x \in DOMAIN tr \cup hits \cup misses |->
                 IF x \in misses THEN Events(tr, x) \o MissEvents
                 ELSE IF x \in hits THEN Events(tr, x) \o HitEvents ELSE tr[x]]
       /\ IF missIdx = {}
          THEN AfterBatch(i, Append(batchLog, [entry EXCEPT !.settledAt = now]))
          ELSE /\ loader' = [pc |-> "batch", i |-> i, timerDue |-> 0]
               /\ pauses' = pauses
               /\ batchLog' = Append(batchLog, entry)
       /\ UNCHANGED <<forecastCache, fails>>

\* the batch at i starts on the load statuses as they are
StartBatch(i) == StartBatchOn(i, loadingStates, trace)

\* loadTier1Forecasts(resorts, setForecast, setLoadingState) is called
LoadTier1Forecasts ==
    /\ loader.pc = "idle"
    /\ IF Len(Tier1(resorts)) = 0
       THEN /\ loader' = [pc |-> "returned", i |-> 0, timerDue |-> 0]
            /\ UNCHANGED <<loadingStates, forecasts, loads, fetches, justSettled,
                           pauses, batchLog, forecastCache, fails, trace>>
       ELSE StartBatch(0)
    /\ UNCHANGED <<clockVars, settings, permission, alertVars, summaryCache, calls,
                   settled, resorts>>

\* await Promise.all(batch.map(...)) goes on when load l settles: l is the
\* last load of the batch in flight
AwaitNeverResumes(l) == FALSE

AllSettledWith(l) == l.by = "bulk" /\ ~\E m \in loads \ {l} : m.by = "bulk"

\* what the settling of load l means for the loadTier1Forecasts call:
\* Promise.all resolves when the last load of the batch has settled
BatchProgress(l) ==
    IF loader.pc = "batch" /\ AllSettledWith(l)
    THEN AfterBatch(loader.i,
             [batchLog EXCEPT ![Len(batchLog)].settledAt = now])
    ELSE UNCHANGED <<loader, pauses, batchLog>>

\* the fetch of a pending loadSingleForecast resolves: the data is cached,
\* delivered through setForecast, and the status becomes 'done'
LoadResolves(l) ==
    /\ l \in loads
    /\ LET data == FetchedForecast(l.fetchId)
       IN /\ forecastCache' = Put(forecastCache, l.id, NewEntry(data, now))
          /\ forecasts' = Put(forecasts, l.id, data)
          /\ loadingStates' = Put(loadingStates, l.id, "done")
    /\ loads' = loads \ {l}
    /\ justSettled' = {l.id}
    /\ trace' = Put(trace, l.id, Events(trace, l.id) \o SuccessEvents)
    /\ BatchProgress(l)
    /\ UNCHANGED <<clockVars, settings, permission, summaryCache, calls,
                   fetches, settled, resorts, fails>>

\* ... in a call of loadTier1Forecasts or loadSingleForecast with nothing
\* chained to it
ResolveLoad(l) == LoadResolves(l) /\ UNCHANGED alertVars

\* the fetch of a pending loadSingleForecast fails: nothing is cached or
\* delivered, the error is logged, and the status becomes 'error'
LoadRejects(l) ==
    /\ l \in loads
    /\ fails < MaxFails
    /\ forecastCache' = AfterReject(forecastCache, l.id, now)
    /\ loads' = loads \ {l}
    /\ fails' = fails + 1
    /\ justSettled' = {l.id}
    /\ IF Caught
       THEN /\ loadingStates' = AfterFailure(loadingStates, l.id)
            /\ trace' = Put(trace, l.id, Events(trace, l.id) \o FailureEvents)
            /\ BatchProgress(l)
       ELSE \* the rejection leaves loadSingleForecast: Promise.all rejects
            \* and so does the loadTier1Forecasts call awaiting it
            /\ trace' = Put(trace, l.id, Events(trace, l.id) \o <<"failed">>)
            /\ UNCHANGED <<loadingStates, pauses, batchLog>>
            /\ loader' = IF l.by = "bulk" /\ loader.pc = "batch"
                          THEN [loader EXCEPT !.pc = "rejected"] ELSE loader
    /\ UNCHANGED <<clockVars, configVars, summaryCache, calls,
                   fetches, settled, resorts>>

RejectLoad(l) == LoadRejects(l) /\ UNCHANGED alertVars

\* the inter-batch timer fires and the next batch starts
TimerFires ==
    /\ loader.pc = "pause"
    /\ TimerElapsed(loader.timerDue, now)
    /\ StartBatch(loader.i + BATCH_SIZE)
    /\ UNCHANGED <<clockVars, settings, permission, alertVars, summaryCache, calls,
                   settled, resorts>>

\* time passes while the loader waits for its timer: first to the last
\* millisecond before the timer is due, then to the time it is due
TickLoad ==
    /\ loader.pc = "pause"
    /\ now < loader.timerDue
    /\ now' = IF now < loader.timerDue - 1 THEN loader.timerDue - 1 ELSE loader.timerDue
    /\ justSettled' = {}
    /\ UNCHANGED <<ticks, configVars, alertVars, cacheVars, resorts, loadingStates,
                   loads, loader, batchLog, pauses, fails, trace>>

InitLoadSpec ==
    InitClock /\ InitAppFresh /\ InitCache /\ InitLoad({ResortList(n) : n \in ListSizes})

NextLoad ==
    \/ LoadTier1Forecasts /\ UNCHANGED <<uiVars, pureVars>>
    \/ \E l \in loads : ResolveLoad(l) /\ UNCHANGED <<uiVars, pureVars>>
    \/ \E l \in loads : RejectLoad(l) /\ UNCHANGED <<uiVars, pureVars>>
    \/ TimerFires /\ UNCHANGED <<uiVars, pureVars>>
    \/ TickLoad /\ UNCHANGED <<uiVars, pureVars>>

SpecLoad == InitLoadSpec /\ [][NextLoad]_vars

\* a fetch in flight settles
Settles == \E l \in loads : ResolveLoad(l) \/ RejectLoad(l)

\* The loader in an environment where loadTier1Forecasts is called, every
\* fetch that is started settles, time passes and a timer that is due fires
FairLoad ==
    /\ WF_vars(LoadTier1Forecasts /\ UNCHANGED <<uiVars, pureVars>>)
    /\ WF_vars(Settles /\ UNCHANGED <<uiVars, pureVars>>)
    /\ WF_vars(TimerFires /\ UNCHANGED <<uiVars, pureVars>>)
    /\ WF_vars(TickLoad /\ UNCHANGED <<uiVars, pureVars>>)

SpecLoadFair == InitLoadSpec /\ [][NextLoad]_vars /\ FairLoad

--------------------------------------------------------------------------
(* The views that load forecasts: Dashboard and ResortDetail.  One session *)
(* of the application is followed through one bulk load cycle: the         *)
(* Dashboard is mounted at most once, before or after detail views, and    *)
(* detail views are opened in any order while the cycle runs.  The resort  *)
(* list of the session fits in one batch, so that no inter-batch timer is  *)
(* set; the pacing of several batches is what SpecLoad follows.            *)

\* resorts.json of the session: tier-1 resorts 1..5 and 7.., tier-2 resort 6
AppResorts == ResortList(MaxAppList)

\* the resorts whose detail view the user opens: a tier-1 resort and the
\* on-demand (tier 2) one
DetailTargets == {1, 6}

\* loadingStates[resort.id] ?? 'idle'
StatusOf(states, id) == IF id \in DOMAIN states THEN states[id] ELSE "idle"

\* loadSingleForecast(resort, ...) called by a view, up to its await (or,
\* when the cache answers, to its end)
LoadSingle(id, by) ==
    /\ IF Fresh(forecastCache, id, now)
       THEN /\ loadingStates' = Put(loadingStates, id, "done")
            /\ forecasts' = Put(forecasts, id, forecastCache[id].data)
            /\ trace' = Put(trace, id, Events(trace, id) \o HitEvents)
            /\ justSettled' = {id}
            /\ UNCHANGED <<loads, fetches>>
       ELSE /\ loadingStates' = Put(loadingStates, id, "loading")
            /\ loads' = loads \cup {[id |-> id, fetchId |-> fetches + 1, by |-> by]}
            /\ fetches' = fetches + 1
            /\ trace' = Put(trace, id, Events(trace, id) \o MissEvents)
            /\ justSettled' = {}
            /\ UNCHANGED forecasts
    /\ UNCHANGED <<forecastCache, loader, batchLog, pauses, fails>>

\* The guards of the fetch effect of ResortDetail: a load is started when
\* the resort has no forecast, this instance has started none, and the
\* status is not 'loading'
DetailStarts(id, fetchStarted) ==
    /\ id \notin DOMAIN forecasts
    /\ ~fetchStarted
    /\ StatusOf(loadingStates, id) # "loading"

\* what ResortDetail renders for resort id on the forecasts fcs and the
\* load statuses states
DetailScreen(rs, fcs, states, id) ==
    IF ~\E p \in 1..Len(rs) : rs[p].id = id THEN "notFound"
    ELSE IF id \notin DOMAIN fcs \/ StatusOf(states, id) \in {"loading", "idle"}
    THEN "loading"
    ELSE IF StatusOf(states, id) = "error" THEN "error"
    ELSE "detail"

\* the user navigates to /resort/<id>: from another route a new
\* ResortDetail instance is mounted (fetchStarted = false); from another
\* detail page the instance is kept and its effect runs again
ShowDetail(id) ==
    /\ ~(view.route = "detail" /\ view.id = id)
    /\ LET fs == IF view.route = "detail" THEN view.fetchStarted ELSE FALSE
       IN IF DetailStarts(id, fs)
          THEN /\ view' = [route |-> "detail", id |-> id, fetchStarted |-> TRUE]
               /\ LoadSingle(id, "detail")
          ELSE /\ view' = [route |-> "detail", id |-> id, fetchStarted |-> fs]
               /\ justSettled' = {}
               /\ UNCHANGED <<loadingStates, forecasts, loads, fetches, trace,
                              forecastCache, loader, batchLog, pauses, fails>>
    /\ UNCHANGED <<clockVars, settings, permission, alertVars, summaryCache, calls,
                   settled, resorts, refs, checks, pureVars>>

\* the user navigates to a route that loads nothing (/settings, /compare)
LeaveView ==
    /\ view.route \in {"dashboard", "detail"}
    /\ view' = [route |-> "other", id |-> 0, fetchStarted |-> FALSE]
    /\ justSettled' = {}
    /\ UNCHANGED <<clockVars, configVars, alertVars, cacheVars, resorts, loadingStates,
                   loads, loader, batchLog, pauses, fails, trace, refs, checks, pureVars>>

\* the user navigates to /: the Dashboard mounts, marks every tier-1
\* resort 'idle' and calls loadTier1Forecasts
MountEffect ==
    /\ loader.pc = "idle"
    /\ view.route # "dashboard"
    /\ view' = [route |-> "dashboard", id |-> 0, fetchStarted |-> FALSE]
    /\ LET tier1 == Tier1(resorts)
           ids == {tier1[k].id : k \in 1..Len(tier1)}
           idle == [x \in DOMAIN loadingStates \cup ids |->
                       IF x \in ids THEN "idle" ELSE loadingStates[x]]
           tr == [x \in DOMAIN trace \cup ids |->
                     IF x \in ids THEN Events(trace, x) \o <<"idle">> ELSE trace[x]]
       IN IF Len(tier1) = 0
          THEN /\ loader' = [pc |-> "returned", i |-> 0, timerDue |-> 0]
               /\ loadingStates' = idle
               /\ trace' = tr
               /\ justSettled' = {}
               /\ UNCHANGED <<forecasts, loads, fetches, pauses, batchLog,
                              forecastCache, fails>>
          ELSE StartBatchOn(0, idle, tr)
    /\ UNCHANGED <<clockVars, settings, permission, summaryCache, calls,
                   settled, resorts, pureVars>>

\* ... in a session without notification permission and with an empty
\* alert log, where the check that follows the load changes nothing
MountDashboard == MountEffect /\ UNCHANGED <<alertVars, refs, checks>>

InitAppSpec == InitClock /\ InitAppFresh /\ InitCache /\ InitLoad({AppResorts})

NextApp ==
    \/ MountDashboard
    \/ \E id \in DetailTargets : ShowDetail(id)
    \/ LeaveView
    \/ \E l \in loads : ResolveLoad(l) /\ UNCHANGED <<uiVars, pureVars>>
    \/ \E l \in loads : RejectLoad(l) /\ UNCHANGED <<uiVars, pureVars>>

SpecApp == InitAppSpec /\ [][NextApp]_vars

--------------------------------------------------------------------------
(* The Dashboard and the alert check that follows its bulk load.  The      *)
(* session has notification permission; its resort list is one batch.      *)
(* React renders the dispatched state in a task of its own, after the      *)
(* promise reactions of the task that dispatched: what runs between two    *)
(* awaits, continuations of settled promises included, is one step here.   *)

\* resorts.json of the session: tier-1 resorts 1..MaxDashList
DashResorts == ResortList(MaxDashList)

\* the resort whose detail view the user opens while the Dashboard loads
DashDetailTargets == {1}

\* what a render of the Dashboard followed by its effects leaves in
\* forecastsRef, settingsRef and alertLogRef
Rendered == [forecasts |-> forecasts, settings |-> settings, alertLog |-> alertLog]

\* the reducer's UPDATE_ALERT_LOG:
\* alertLog: { ...state.alertLog, [resortId]: timestamp }
UpdateAlertLogAlone(log, resortId, timestamp) == [k \in {resortId} |-> timestamp]

UpdateAlertLog(log, resortId, timestamp) == Put(log, resortId, timestamp)

\* Object.entries(updatedLog).forEach(([id, ts]) => updateAlertLog(id, ts))
RECURSIVE DispatchLog(_, _)
DispatchLog(log, updatedLog) ==
    IF DOMAIN updatedLog = {} THEN log
    ELSE LET id == CHOOSE k \in DOMAIN updatedLog :
                       \A j \in DOMAIN updatedLog : k <= j
             rest == [j \in DOMAIN updatedLog \ {id} |-> updatedLog[j]]
         IN DispatchLog(UpdateAlertLog(log, id, updatedLog[id]), rest)

\* resorts.filter((r) => r.tier === 1), as the ids checkPowderAlerts reads
Tier1IdSeq(rs) == [k \in 1..Len(Tier1(rs)) |-> Tier1(rs)[k].id]

\* the reaction chained to loadTier1Forecasts: checkPowderAlerts on what
\* the refs r hold, then one updateAlertLog per entry of the returned log
ThenCallback(r) ==
    LET in == [resorts |-> Tier1IdSeq(resorts), forecasts |-> r.forecasts,
               thresholds |-> r.settings.thresholds,
               defaultThreshold |-> r.settings.defaultThreshold,
               alertLog |-> r.alertLog, permission |-> permission,
               ctorThrows |-> FALSE, onAlertFired |-> "ok", at |-> now]
        out == CheckPowderAlerts(in)
    IN /\ pass' = [ran |-> TRUE, resorts |-> in.resorts, alertLog |-> in.alertLog,
                   ctorThrows |-> FALSE, onAlertFired |-> "ok", at |-> now,
                   log |-> out.log, fired |-> out.fired, shown |-> out.shown,
                   cbs |-> out.cbs, errors |-> out.errors, threw |-> out.threw,
                        input |-> out.input]
       /\ alertLog' = DispatchLog(alertLog, out.log)
       /\ notifs' = notifs \o out.shown
       /\ passes' = passes + 1
       /\ checks' = Append(checks, [read |-> r.forecasts, store |-> forecasts',
                                    states |-> loadingStates'])

\* the loadTier1Forecasts call returns in this step: its promise is
\* fulfilled and the chained reaction runs before anything else
ReturnsAtEverySettle == TRUE

Returns == loader.pc # "returned" /\ loader'.pc = "returned"

\* the user navigates to /: first render of the Dashboard and its effects
DashMount ==
    /\ MountEffect
    /\ refs' = Rendered
    /\ IF Returns THEN ThenCallback(Rendered) ELSE UNCHANGED <<alertVars, checks>>

DashResolve(l) ==
    /\ LoadResolves(l)
    /\ IF Returns THEN ThenCallback(refs) ELSE UNCHANGED <<alertVars, checks>>
    /\ UNCHANGED <<view, refs, pureVars>>

DashReject(l) ==
    /\ LoadRejects(l)
    /\ IF Returns THEN ThenCallback(refs) ELSE UNCHANGED <<alertVars, checks>>
    /\ UNCHANGED <<view, refs, pureVars>>

\* React renders the mounted Dashboard with the state dispatched so far
\* and runs the effects that copy it into the refs
Render ==
    /\ view.route = "dashboard"
    /\ refs # Rendered
    /\ refs' = Rendered
    /\ justSettled' = {}
    /\ UNCHANGED <<clockVars, configVars, alertVars, cacheVars, resorts, loadingStates,
                   loads, loader, batchLog, pauses, fails, trace, view, checks, pureVars>>

InitDash ==
    /\ InitClock
    /\ InitApp({DefaultSettings}, {EmptyObj}, {"granted"})
    /\ InitCache
    /\ InitLoad({DashResorts})

NextDash ==
    \/ DashMount
    \/ \E l \in loads : DashResolve(l)
    \/ \E l \in loads : DashReject(l)
    \/ Render
    \/ \E id \in DashDetailTargets : ShowDetail(id)
    \/ LeaveView

SpecDash == InitDash /\ [][NextDash]_vars

--------------------------------------------------------------------------
(* The alert log of the application: App.jsx (AlertWatcher) and the alert  *)
(* history of views/Settings.jsx                                           *)

\* the window gets the focus: handleFocus checks the tier-1 resorts on the
\* state of the last render and dispatches every entry of the returned log
HandleFocus ==
    /\ passes < MaxPasses
    /\ forecasts # EmptyObj
    /\ LET in == [resorts |-> Tier1IdSeq(resorts), forecasts |-> forecasts,
                  thresholds |-> settings.thresholds,
                  defaultThreshold |-> settings.defaultThreshold,
                  alertLog |-> alertLog, permission |-> permission,
                  ctorThrows |-> FALSE, onAlertFired |-> "none", at |-> now]
           out == CheckPowderAlerts(in)
       IN /\ pass' = [ran |-> TRUE, resorts |-> in.resorts, alertLog |-> in.alertLog,
                      ctorThrows |-> FALSE, onAlertFired |-> "none", at |-> now,
                      log |-> out.log, fired |-> out.fired, shown |-> out.shown,
                      cbs |-> out.cbs, errors |-> out.errors, threw |-> out.threw,
                      input |-> out.input]
          /\ alertLog' = DispatchLog(alertLog, out.log)
          /\ notifs' = notifs \o out.shown
    /\ passes' = passes + 1
    /\ UNCHANGED <<clockVars, configVars>>

\* handleClearHistory: updateAlertLog(id, 0) for every key of the log
HandleClearHistory ==
    /\ alertLog' = DispatchLog(alertLog, [id \in DOMAIN alertLog |-> 0])
    /\ pass' = NoPass
    /\ UNCHANGED <<clockVars, configVars, notifs, passes>>

\* the alert logs found in localStorage when the application starts
SavedLogs == InitLogs \cup {EmptyObj}

InitLog ==
    /\ InitClock /\ InitApp({DefaultSettings}, SavedLogs, Permissions)
    /\ InitCache /\ InitLoad({ResortList(MaxResorts)})

NextLog ==
    \/ HandleFocus /\ UNCHANGED <<cacheVars, loadVars, uiVars, pureVars>>
    \/ HandleClearHistory /\ UNCHANGED <<cacheVars, loadVars, uiVars, pureVars>>
    \/ SetForecasts /\ UNCHANGED <<cacheVars, loadVars, uiVars, pureVars>>
    \/ TickAlert /\ UNCHANGED <<cacheVars, loadVars, uiVars, pureVars>>

SpecLog == InitLog /\ [][NextLog]_vars

--------------------------------------------------------------------------
(* Snow quality: lib/snowQuality.js.  Temperatures and snowfall amounts    *)
(* are tenths of a degree and of a centimetre (0.5 cm is 5), scores are    *)
(* tenths; wind speeds, hours and humidity are whole numbers.              *)

\* the objects getSnowQuality returns (without their emoji)
Powder == [label |-> "Powder", color |-> "#1E90FF", bgColor |-> "#E8F4FD", priority |-> 1]
WindAffected ==
    [label |-> "Wind Affected", color |-> "#F97316", bgColor |-> "#FEF3C7", priority |-> 2]
PackedPowder ==
    [label |-> "Packed Powder", color |-> "#38BDF8", bgColor |-> "#F0F9FF", priority |-> 3]
Soft == [label |-> "Soft", color |-> "#4ADE80", bgColor |-> "#F0FDF4", priority |-> 4]
SpringCorn ==
    [label |-> "Spring/Corn", color |-> "#FBBF24", bgColor |-> "#FFFBEB", priority |-> 5]
IcyAsSpring == [label |-> "Icy", color |-> "#EF4444", bgColor |-> "#FEF2F2", priority |-> 5]

Icy == [label |-> "Icy", color |-> "#EF4444", bgColor |-> "#FEF2F2", priority |-> 6]
Variable == [label |-> "Variable", color |-> "#9CA3AF", bgColor |-> "#F9FAFB", priority |-> 7]

\* getSnowQuality({ temp_c, wind_kmh, snowfall_cm, snowAgeHours, humidity_pct })
GetSnowQualityPackedAnyTemp(temp_c, wind_kmh, snowfall_cm, snowAgeHours, humidity_pct) ==
    IF Gt(snowfall_cm, 5) /\ Lt(temp_c, 0 - 20) /\ Lt(wind_kmh, 40) THEN Powder
    ELSE IF Gt(snowfall_cm, 2) /\ Ge(wind_kmh, 40) THEN WindAffected
    ELSE IF Le(snowAgeHours, 12) /\ Lt(humidity_pct, 70) THEN PackedPowder
    ELSE IF Le(snowAgeHours, 24) /\ Ge(temp_c, 0 - 50) /\ Lt(temp_c, 20) THEN Soft
    ELSE IF Ge(temp_c, 20) THEN SpringCorn
    ELSE IF Gt(snowAgeHours, 24) /\ Lt(temp_c, 0 - 20) THEN Icy
    ELSE Variable

GetSnowQualityPackedFirst(temp_c, wind_kmh, snowfall_cm, snowAgeHours, humidity_pct) ==
    IF Le(snowAgeHours, 12) /\ Lt(temp_c, 0 - 50) /\ Lt(humidity_pct, 70) THEN PackedPowder
    ELSE IF Gt(snowfall_cm, 5) /\ Lt(temp_c, 0 - 20) /\ Lt(wind_kmh, 40) THEN Powder
    ELSE IF Gt(snowfall_cm, 2) /\ Ge(wind_kmh, 40) THEN WindAffected
    ELSE IF Le(snowAgeHours, 24) /\ Ge(temp_c, 0 - 50) /\ Lt(temp_c, 20) THEN Soft
    ELSE IF Ge(temp_c, 20) THEN SpringCorn
    ELSE IF Gt(snowAgeHours, 24) /\ Lt(temp_c, 0 - 20) THEN Icy
    ELSE Variable

GetSnowQuality(temp_c, wind_kmh, snowfall_cm, snowAgeHours, humidity_pct) ==
    IF Gt(snowfall_cm, 5) /\ Lt(temp_c, 0 - 20) /\ Lt(wind_kmh, 40) THEN Powder
    ELSE IF Gt(snowfall_cm, 2) /\ Ge(wind_kmh, 40) THEN WindAffected
    ELSE IF Le(snowAgeHours, 12) /\ Lt(temp_c, 0 - 50) /\ Lt(humidity_pct, 70) THEN PackedPowder
    ELSE IF Le(snowAgeHours, 24) /\ Ge(temp_c, 0 - 50) /\ Lt(temp_c, 20) THEN Soft
    ELSE IF Ge(temp_c, 20) THEN SpringCorn
    ELSE IF Gt(snowAgeHours, 24) /\ Lt(temp_c, 0 - 20) THEN Icy
    ELSE Variable

\* the lookback cap of getSnowAgeHours
SNOW_AGE_CAP == 72

\* hourlySnowfall[i]: undefined outside the array
At(hourlySnowfall, i) ==
    IF i >= 0 /\ i < Len(hourlySnowfall) THEN hourlySnowfall[i + 1] ELSE NaN

\* the for loop of getSnowAgeHours, from index i down
RECURSIVE ScanBackGe(_, _, _)
ScanBackGe(hourlySnowfall, currentHourIndex, i) ==
    IF i < 0 THEN SNOW_AGE_CAP
    ELSE IF currentHourIndex - i > SNOW_AGE_CAP THEN SNOW_AGE_CAP
    ELSE IF Ge(At(hourlySnowfall, i), 1) THEN currentHourIndex - i
    ELSE ScanBackGe(hourlySnowfall, currentHourIndex, i - 1)

RECURSIVE ScanBack(_, _, _)
ScanBack(hourlySnowfall, currentHourIndex, i) ==
    IF i < 0 THEN SNOW_AGE_CAP
    ELSE IF currentHourIndex - i > SNOW_AGE_CAP THEN SNOW_AGE_CAP
    ELSE IF Gt(At(hourlySnowfall, i), 1) THEN currentHourIndex - i
    ELSE ScanBack(hourlySnowfall, currentHourIndex, i - 1)

\* getSnowAgeHours(hourlySnowfall, currentHourIndex)
GetSnowAgeHours(hourlySnowfall, currentHourIndex) ==
    ScanBack(hourlySnowfall, currentHourIndex, currentHourIndex)

\* the score of one day, in tenths
ScoreWindFrom50(day) ==
    Num(day.snowfall_sum) * 3 - Num(day.rain_sum) * 5
        - (IF Ge(day.windspeed_10m_max, 50) THEN 100 ELSE 0)
        + (IF Lt(day.temperature_2m_max, 0) THEN 50 ELSE 0)

Score(day) ==
    Num(day.snowfall_sum) * 3 - Num(day.rain_sum) * 5
        - (IF Gt(day.windspeed_10m_max, 50) THEN 100 ELSE 0)
        + (IF Lt(day.temperature_2m_max, 0) THEN 50 ELSE 0)

\* dailyData.map((day, i) => ({ index: i, date: day.time, score: ... }))
Scored(dailyData) ==
    [i \in 1..Len(dailyData) |->
        [index |-> i - 1, date |-> dailyData[i].time, score |-> Score(dailyData[i])]]

\* where the stable sort by (a, b) => b.score - a.score puts x among the
\* elements that came before it: behind every one that scores as much or more
InsertBeforeTies(sorted, x) ==
    LET k == Cardinality({j \in 1..Len(sorted) : sorted[j].score > x.score})
    IN SubSeq(sorted, 1, k) \o <<x>> \o SubSeq(sorted, k + 1, Len(sorted))

Insert(sorted, x) ==
    LET k == Cardinality({j \in 1..Len(sorted) : sorted[j].score >= x.score})
    IN SubSeq(sorted, 1, k) \o <<x>> \o SubSeq(sorted, k + 1, Len(sorted))

\* scored.sort((a, b) => b.score - a.score): descending and stable
RECURSIVE SortByScore(_)
SortByScore(scored) ==
    IF scored = <<>> THEN <<>>
    ELSE Insert(SortByScore(SubSeq(scored, 1, Len(scored) - 1)), scored[Len(scored)])

\* [][0] of an empty array
NoWindow == [index |-> Undefined, date |-> Undefined, score |-> Undefined]

\* getBestWindow(dailyData)
GetBestWindow(dailyData) ==
    IF dailyData = <<>> THEN NoWindow ELSE SortByScore(Scored(dailyData))[1]

\* buildDailyArray(daily): the first seven days, a missing number as 0
BuildDailyArray(daily) ==
    [i \in 1..(IF Len(daily.time) < 7 THEN Len(daily.time) ELSE 7) |->
        [time               |-> daily.time[i],
         snowfall_sum       |-> Coalesce(At(daily.snowfall_sum, i - 1), 0),
         rain_sum           |-> Coalesce(At(daily.rain_sum, i - 1), 0),
         windspeed_10m_max  |-> Coalesce(At(daily.windspeed_10m_max, i - 1), 0),
         temperature_2m_max |-> Coalesce(At(daily.temperature_2m_max, i - 1), 0)]]

\* the quality of the current hour idx of a forecast's hourly block, as the
\* views compute it, with the snow age it is computed from
CurrentQuality(hourly, idx) ==
    LET snowAgeHours == GetSnowAgeHours(hourly.snowfall, idx)
    IN [snowAgeHours |-> snowAgeHours,
        quality |-> GetSnowQuality(Coalesce(At(hourly.temperature_2m, idx), 0),
                                   Coalesce(At(hourly.windspeed_10m, idx), 0),
                                   Coalesce(At(hourly.snowfall, idx), 0),
                                   snowAgeHours,
                                   Coalesce(At(hourly.relativehumidity_2m, idx), 50))]

\* the best window of a forecast's daily block, as the views compute it
CurrentBestWindow(daily) == GetBestWindow(BuildDailyArray(daily))

\* The arguments the functions are called with
Temps == {0 - 80, 0 - 51, 0 - 50, 0 - 49, 0 - 21, 0 - 20, 0 - 19, 19, 20, NaN}
Winds == {20, 39, 40, NaN}
Snowfalls == {0, 2, 3, 5, 6, 12, NaN}
SnowAges == {1, 12, 13, 24, 25, SNOW_AGE_CAP, NaN}
Humidities == {60, 69, 70, NaN}

\* an hourly series of length len, all 0 except value v at index p and
\* 0.2 cm at index q
Series(len, p, v, q) ==
    [k \in 1..len |-> IF k - 1 = p THEN v ELSE IF k - 1 = q THEN 2 ELSE 0]

SeriesLengths == {0, 1, 3, MaxSeries - 2, MaxSeries}
SnowIndexes == {0 - 1, 0, 1, 2, 3, MaxSeries - 3}
CurrentIndexes == {0 - 1, 0, 2, SNOW_AGE_CAP, SNOW_AGE_CAP + 1, MaxSeries - 1, MaxSeries + 4}

\* a day of the daily forecast; `time` is its date
Day(snow, rain, wind, temp) ==
    [time |-> 0, snowfall_sum |-> snow, rain_sum |-> rain,
     windspeed_10m_max |-> wind, temperature_2m_max |-> temp]

DayKinds ==
    { Day(20, 0, 30, 0 - 50), Day(200, 0, 20, 0 - 80), Day(50, 50, 60, 20),
      Day(250, 20, 50, 10), Day(0, 0, 51, 50) }

\* daily arrays of up to MaxDays days, dated 20260301, 20260302, ...
DailyArrays ==
    UNION { { [i \in 1..n |-> [kinds[i] EXCEPT !.time = 20260300 + i]] :
                kinds \in [1..n -> DayKinds] } : n \in 0..MaxDays }

\* the calls the functions are checked on
QualityCalls ==
    { [fn |-> "getSnowQuality", temp_c |-> t, wind_kmh |-> w, snowfall_cm |-> s,
       snowAgeHours |-> a, humidity_pct |-> h] :
        t \in Temps, w \in Winds, s \in Snowfalls, a \in SnowAges, h \in Humidities }

SnowAgeCalls ==
    { [fn |-> "getSnowAgeHours", hourlySnowfall |-> Series(len, p, v, q),
       currentHourIndex |-> idx] :
        len \in SeriesLengths, p \in SnowIndexes, v \in {1, 2, 15}, q \in SnowIndexes,
        idx \in CurrentIndexes }

BestWindowCalls == { [fn |-> "getBestWindow", dailyData |-> days] : days \in DailyArrays }

\* an hourly array of two hours; the current hour's entry is a number, null,
\* or absent (NaN) when the array is one short
Hours(first, cur) == IF cur = NaN THEN <<first>> ELSE <<first, cur>>

HourlyBlocks ==
    { [temperature_2m      |-> Hours(0 - 80, t),
       windspeed_10m       |-> Hours(20, w),
       snowfall            |-> Hours(s0, s),
       relativehumidity_2m |-> Hours(60, h)] :
        t \in {0 - 80, 0 - 30, 0, 30, Null, NaN}, w \in {20, 50, Null, NaN},
        s0 \in {0, 20, Null}, s \in {0, 3, 10, Null, NaN}, h \in {60, 80, Null, NaN} }

\* the daily block of a forecast of two days
DailyBlocks ==
    { [time               |-> <<20260301, 20260302>>,
       snowfall_sum       |-> snow,
       rain_sum           |-> rain,
       windspeed_10m_max  |-> wind,
       temperature_2m_max |-> temp] :
        snow \in {<<20, 200>>, <<Null, 20>>, <<200, Null>>, <<Null, Null>>, <<20>>},
        rain \in {<<0, 50>>, <<50, Null>>, <<Null, 0>>, <<>>},
        wind \in {<<60, 20>>, <<Null, 60>>, <<60>>},
        temp \in {<<0 - 50, 20>>, <<Null, 0 - 50>>, <<0 - 50>>} }

\* the snowfall sums the alert candidate is taken from, in tenths
CandidateForecasts ==
    { Daily(snow) : snow \in {<<Null>>, <<Null, Null>>, <<Null, 150>>, <<150, Null>>,
                              <<0, 150>>, <<150, 0, 300>>, <<Null, 0, 300>>} }

QualityReads ==
    { [fn |-> "currentQuality", hourly |-> h, idx |-> i] : h \in HourlyBlocks, i \in {0, 1} }

BestWindowReads == { [fn |-> "currentBestWindow", daily |-> d] : d \in DailyBlocks }

CandidateReads == { [fn |-> "maxSnow", forecast |-> fc] : fc \in CandidateForecasts }

\* the result of a call
Returned(fn, value) == [fn |-> fn, value |-> value]

CallSnowQuality ==
    /\ arg.fn = "getSnowQuality" /\ ret.fn = "none"
    /\ ret' = Returned(arg.fn, GetSnowQuality(arg.temp_c, arg.wind_kmh, arg.snowfall_cm,
                                              arg.snowAgeHours, arg.humidity_pct))
    /\ UNCHANGED <<clockVars, configVars, alertVars, cacheVars, loadVars, uiVars, arg>>

CallSnowAge ==
    /\ arg.fn = "getSnowAgeHours" /\ ret.fn = "none"
    /\ ret' = Returned(arg.fn, GetSnowAgeHours(arg.hourlySnowfall, arg.currentHourIndex))
    /\ UNCHANGED <<clockVars, configVars, alertVars, cacheVars, loadVars, uiVars, arg>>

CallBestWindow ==
    /\ arg.fn = "getBestWindow" /\ ret.fn = "none"
    /\ ret' = Returned(arg.fn, GetBestWindow(arg.dailyData))
    /\ UNCHANGED <<clockVars, configVars, alertVars, cacheVars, loadVars, uiVars, arg>>

\* a view computes the quality of the current hour of a forecast
ReadQuality ==
    /\ arg.fn = "currentQuality" /\ ret.fn = "none"
    /\ ret' = Returned(arg.fn, CurrentQuality(arg.hourly, arg.idx))
    /\ UNCHANGED <<clockVars, configVars, alertVars, cacheVars, loadVars, uiVars, arg>>

\* a view computes the best window of a forecast
ReadBestWindow ==
    /\ arg.fn = "currentBestWindow" /\ ret.fn = "none"
    /\ ret' = Returned(arg.fn, CurrentBestWindow(arg.daily))
    /\ UNCHANGED <<clockVars, configVars, alertVars, cacheVars, loadVars, uiVars, arg>>

\* the alert check takes the candidate snowfall of the next two days
ReadMaxSnow ==
    /\ arg.fn = "maxSnow" /\ ret.fn = "none"
    /\ ret' = Returned(arg.fn, MathMax(Next2Days(arg.forecast)))
    /\ UNCHANGED <<clockVars, configVars, alertVars, cacheVars, loadVars, uiVars, arg>>

InitPure ==
    /\ InitClock /\ InitAppFresh /\ InitCache
    /\ resorts = <<>>
    /\ loadingStates = EmptyObj
    /\ loads = {}
    /\ loader = LoaderIdle
    /\ batchLog = <<>>
    /\ pauses = 0
    /\ fails = 0
    /\ justSettled = {}
    /\ trace = EmptyObj
    /\ view = NoView
    /\ refs = NoRefs
    /\ checks = <<>>
    /\ arg \in QualityCalls \cup SnowAgeCalls \cup BestWindowCalls
                \cup QualityReads \cup BestWindowReads \cup CandidateReads
    /\ ret = NoCall

NextPure ==
    \/ CallSnowQuality
    \/ CallSnowAge
    \/ CallBestWindow
    \/ ReadQuality
    \/ ReadBestWindow
    \/ ReadMaxSnow

SpecPure == InitPure /\ [][NextPure]_vars

--------------------------------------------------------------------------
(* Claims about the alert check *)

FiredIds(p) == {p.fired[i][1] : i \in 1..Len(p.fired)}
FireCount(p, id) == Cardinality({i \in 1..Len(p.fired) : p.fired[i][1] = id})
CallbackIds(p) == {p.cbs[i][1] : i \in 1..Len(p.cbs)}
Listed(p) == {p.resorts[i] : i \in 1..Len(p.resorts)}

\* C1: over passes chained through the returned log, any two notifications
\* dispatched for the same location are more than 6 hours apart.
C1_SeparatedByCooldown ==
    \A i \in 1..Len(notifs) : \A j \in 1..Len(notifs) :
        (i < j /\ notifs[i][1] = notifs[j][1])
            => notifs[j][2] - notifs[i][2] > 6 * 60 * 60 * 1000

\* The largest of the first two daily snowfall values of a forecast that
\* has at least one.
Candidate48h(fc) ==
    IF Len(fc.snow) = 1 \/ fc.snow[1] >= fc.snow[2] THEN fc.snow[1] ELSE fc.snow[2]

ThresholdOf(id) ==
    IF id \in DOMAIN settings.thresholds THEN settings.thresholds[id]
    ELSE IF settings.defaultThreshold = Undefined THEN 1524
    ELSE settings.defaultThreshold

LastFiredIn(p, id) == IF id \in DOMAIN p.alertLog THEN p.alertLog[id] ELSE 0

HasDailyValue(id) ==
    id \in DOMAIN forecasts /\ forecasts[id].hasSnow /\ Len(forecasts[id].snow) >= 1

\* C2: in a pass with permission granted, a listed location whose forecast
\* has a daily snowfall value gets a notification exactly when its 48 h
\* maximum reaches its threshold and more than 6 hours have passed since
\* its last-fired timestamp; then the returned log holds now for it and the
\* callback, when given, was invoked for it.
C2_FiresIffThresholdAndCooldown ==
    (pass.ran /\ permission = "granted") =>
        \A id \in Listed(pass) :
            HasDailyValue(id) =>
                /\ (id \in FiredIds(pass)) <=>
                       /\ Candidate48h(forecasts[id]) >= ThresholdOf(id)
                       /\ pass.at - LastFiredIn(pass, id) > 6 * 60 * 60 * 1000
                /\ (id \in FiredIds(pass)) =>
                       /\ id \in DOMAIN pass.log /\ pass.log[id] = pass.at
                       /\ (pass.onAlertFired # "none" => id \in CallbackIds(pass))

\* a pass in which one listed location fired, with its callback, and another
\* listed location with a forecast stayed silent because of its cooldown
C2_Witness ==
    /\ pass.ran /\ permission = "granted"
    /\ Len(pass.resorts) = 2
    /\ pass.onAlertFired = "ok"
    /\ \E a \in FiredIds(pass) : \E b \in Listed(pass) \ FiredIds(pass) :
          /\ a \in CallbackIds(pass)
          /\ HasDailyValue(b)
          /\ Candidate48h(forecasts[b]) >= ThresholdOf(b)

\* C3: within one pass at most one notification is fired per location id.
C3_AtMostOncePerPass ==
    pass.ran => \A id \in ResortIds : FireCount(pass, id) <= 1

\* C20: the log a pass returns contains every key of the input log; the
\* entries of locations that did not fire in the pass, ids that are not in
\* the evaluated list included, keep their input timestamp, and only the
\* entries of locations that fired are changed.
C20_LogFrame ==
    pass.ran =>
        /\ DOMAIN pass.alertLog \subseteq DOMAIN pass.log
        /\ \A id \in DOMAIN pass.alertLog \ FiredIds(pass) : pass.log[id] = pass.alertLog[id]
        /\ \A id \in DOMAIN pass.log :
              (id \notin DOMAIN pass.alertLog \/ pass.log[id] # pass.alertLog[id])
                  => id \in FiredIds(pass)

\* a pass that fired for one location while the log held an entry of a
\* listed location that stayed silent and an entry of an unlisted id
C20_Witness ==
    /\ pass.ran
    /\ \E a \in FiredIds(pass) : pass.log[a] = pass.at /\ a \notin DOMAIN pass.alertLog
    /\ \E b \in Listed(pass) \ FiredIds(pass) :
          b \in DOMAIN pass.alertLog /\ pass.log[b] = pass.alertLog[b]
    /\ \E c \in DOMAIN pass.alertLog \ Listed(pass) : pass.log[c] = pass.alertLog[c]

\* the threshold the settings give a location, and its cooldown test
DefaultOf(st) == IF st.defaultThreshold = Undefined THEN 1524 ELSE st.defaultThreshold
HasOverride(id) == id \in DOMAIN settings.thresholds
CooldownOver(id) == pass.at - LastFiredIn(pass, id) > 6 * 60 * 60 * 1000
Evaluated(p) == Listed(p) \cap ResortIds

\* C21: the threshold applied to a location is its override when one is
\* set, higher or lower than the default, and the default otherwise;
\* snowfall 20 with default 15.24 and override 25.4 does not fire.
C21_OverrideElseDefault ==
    (pass.ran /\ permission = "granted") =>
        \A id \in Evaluated(pass) :
            (HasDailyValue(id) /\ CooldownOver(id)) =>
                /\ HasOverride(id) =>
                      ((id \in FiredIds(pass))
                          <=> Candidate48h(forecasts[id]) >= settings.thresholds[id])
                /\ ~HasOverride(id) =>
                      ((id \in FiredIds(pass))
                          <=> Candidate48h(forecasts[id]) >= DefaultOf(settings))
                /\ ( /\ Candidate48h(forecasts[id]) = 2000
                     /\ HasOverride(id) /\ settings.thresholds[id] = 2540 )
                      => id \notin FiredIds(pass)

C21_Witness ==
    /\ pass.ran /\ permission = "granted"
    /\ \E id \in Evaluated(pass) :
          /\ HasDailyValue(id) /\ CooldownOver(id)
          /\ Candidate48h(forecasts[id]) = 2000
          /\ DefaultOf(settings) = 1524
          /\ HasOverride(id) /\ settings.thresholds[id] = 2540
          /\ id \notin FiredIds(pass)

\* a listed location that would fire if permission were granted
WouldFire(id) ==
    /\ HasDailyValue(id) /\ CooldownOver(id)
    /\ Candidate48h(forecasts[id]) >= ThresholdOf(id)

\* C22: when notification permission is not granted, or the Notification
\* API is absent, the pass fires no notification, invokes no callback and
\* returns a log equal to the input log.
C22_NoPermissionNoEffect ==
    (pass.ran /\ permission # "granted") =>
        /\ pass.fired = <<>> /\ pass.shown = <<>> /\ notifs = <<>>
        /\ pass.cbs = <<>>
        /\ pass.log = pass.alertLog
        /\ ~pass.threw

C22_Witness ==
    /\ pass.ran /\ permission = "absent"
    /\ pass.onAlertFired = "ok"
    /\ \E id \in Evaluated(pass) : WouldFire(id)
    /\ pass.log = pass.alertLog /\ pass.fired = <<>>

ErrorIds(p) == {p.errors[i][1] : i \in 1..Len(p.errors)}

\* C23: a location with no forecast is skipped: no notification, no error,
\* its log entry unchanged, and the remaining locations are still evaluated.
C23_MissingForecastSkipped ==
    (pass.ran /\ permission = "granted" /\ NullResort \notin Listed(pass)) =>
        \A id \in Evaluated(pass) :
            id \notin DOMAIN forecasts =>
                /\ id \notin FiredIds(pass) /\ id \notin CallbackIds(pass)
                /\ id \notin ErrorIds(pass) /\ ~pass.threw
                /\ DOMAIN pass.log = DOMAIN pass.alertLog \cup FiredIds(pass)
                /\ id \in DOMAIN pass.alertLog => pass.log[id] = pass.alertLog[id]
                /\ \A other \in Evaluated(pass) : WouldFire(other) => other \in FiredIds(pass)

C23_Witness ==
    /\ pass.ran /\ permission = "granted"
    /\ Len(pass.resorts) = 2
    /\ pass.resorts[1] \notin DOMAIN forecasts
    /\ pass.resorts[1] \in DOMAIN pass.alertLog
    /\ pass.log[pass.resorts[1]] = pass.alertLog[pass.resorts[1]]
    /\ pass.resorts[2] \in FiredIds(pass)

\* a pass in which something threw
Failure(p) == NullResort \in Listed(p) \/ p.ctorThrows \/ p.onAlertFired = "throws"

\* C24: an exception raised while one location is processed, by the
\* notification dispatch or the callback included, is caught: the pass does
\* not throw and every other location has the outcome it would have had.
C24_FailureIsContained ==
    (pass.ran /\ permission = "granted" /\ Failure(pass)) =>
        /\ ~pass.threw
        /\ \A id \in Evaluated(pass) :
              /\ WouldFire(id) =>
                    /\ id \in FiredIds(pass)
                    /\ pass.log[id] = pass.at
                    /\ pass.onAlertFired # "none" => id \in CallbackIds(pass)
              /\ (HasDailyValue(id) /\ ~WouldFire(id)) => id \notin FiredIds(pass)

C24_Witness ==
    /\ pass.ran /\ permission = "granted"
    /\ Len(pass.resorts) = 2 /\ pass.resorts[1] = NullResort
    /\ pass.ctorThrows /\ pass.onAlertFired = "throws"
    /\ pass.resorts[2] \in FiredIds(pass) \cap CallbackIds(pass)
    /\ Len(pass.errors) = 3
    /\ pass.log[pass.resorts[2]] = pass.at

\* C35: when the Notification constructor throws for a location that
\* qualifies, nothing is shown, but the returned log has the location at
\* now and the callback, when one is given, is invoked for it.
C35_FailedDispatchStillStamps ==
    (pass.ran /\ permission = "granted" /\ pass.ctorThrows) =>
        /\ pass.shown = <<>>
        /\ \A id \in Evaluated(pass) :
              WouldFire(id) =>
                  /\ id \in DOMAIN pass.log /\ pass.log[id] = pass.at
                  /\ pass.onAlertFired # "none" => id \in CallbackIds(pass)

C35_Witness ==
    /\ pass.ran /\ permission = "granted" /\ pass.ctorThrows
    /\ pass.onAlertFired = "ok"
    /\ pass.shown = <<>>
    /\ \E id \in Evaluated(pass) :
          /\ WouldFire(id)
          /\ LastFiredIn(pass, id) # pass.at
          /\ pass.log[id] = pass.at
          /\ id \in CallbackIds(pass)

\* C37: the alertLog object passed to checkPowderAlerts has after the call
\* the keys and timestamps it had before it.
C37_InputLogNotMutated ==
    pass.ran => pass.input = pass.alertLog

C37_Witness ==
    /\ pass.ran /\ FiredIds(pass) # {}
    /\ pass.log # pass.alertLog
    /\ pass.input = pass.alertLog

\* C38: over chained passes no location's timestamp in the log decreases
\* and none leaves the log; a timestamp that changes, or appears, is greater
\* than the one before (0 when there was none).
C38_StampsOnlyGrow ==
    [][ /\ \A id \in DOMAIN alertLog :
              id \in DOMAIN alertLog' /\ alertLog'[id] >= alertLog[id]
        /\ \A id \in DOMAIN alertLog' \ DOMAIN alertLog : alertLog'[id] > 0 ]_vars

\* a location fired in two chained passes, the second time later
C38_Witness ==
    /\ passes = 2 /\ Len(notifs) >= 2
    /\ \E i \in 1..Len(notifs) : \E j \in 1..Len(notifs) :
          /\ notifs[i][1] = notifs[j][1]
          /\ notifs[i][2] < notifs[j][2]
          /\ alertLog[notifs[j][1]] = notifs[j][2]

\* C32: no key leaves the application's alert log, neither when the
\* entries of a returned log are applied nor when the history is cleared;
\* clearing gives every key the timestamp 0.
C32_LogKeysNeverShrink ==
    [][ /\ DOMAIN alertLog \subseteq DOMAIN alertLog'
        /\ (pass' = NoPass /\ alertLog' # alertLog) =>
               /\ DOMAIN alertLog' = DOMAIN alertLog
               /\ \A id \in DOMAIN alertLog' : alertLog'[id] = 0 ]_vars

\* the history was cleared after a location fired: every key is still
\* there, at 0
C32_Witness ==
    /\ Len(notifs) >= 1
    /\ Cardinality(DOMAIN alertLog) >= 2
    /\ notifs[1][1] \in DOMAIN alertLog
    /\ \A id \in DOMAIN alertLog : alertLog[id] = 0

--------------------------------------------------------------------------
(* Claims about the caches *)

ForecastCalls == {i \in 1..Len(calls) : calls[i].fn = "forecast"}

SameKey(i, j) ==
    calls[i].fn = calls[j].fn /\ calls[i].id = calls[j].id /\ calls[i].date = calls[j].date

\* call i had completed when call j began
CompletedBefore(i, j) ==
    calls[i].state \in {"resolved", "rejected"} /\ calls[i].doneSeq <= calls[j].settledBefore

\* C4: once a getCachedForecast call has completed successfully, a later
\* call for the key that begins less than 1 hour after it returns the
\* cached value and does not invoke fetchFn; a call that begins when the
\* entry is 1 hour old or more invokes fetchFn again.
C4_OneFetchPerTtlWindow ==
    \A j \in ForecastCalls :
        /\ \A i \in ForecastCalls :
              ( /\ SameKey(i, j)
                /\ calls[i].state = "resolved"
                /\ CompletedBefore(i, j)
                /\ calls[j].began - calls[i].doneAt < 60 * 60 * 1000 )
              => /\ calls[j].state = "hit"
                 /\ calls[j].fetchId = 0
                 /\ calls[j].seen.has
                 /\ calls[j].result = calls[j].seen.data
        /\ (calls[j].seen.has /\ calls[j].began - calls[j].seen.timestamp >= 60 * 60 * 1000)
              => calls[j].fetchId # 0

\* a fetch, then a hit one millisecond before the hour is over, then a
\* call at the full hour that fetches again
C4_Witness ==
    \E i, j, k \in ForecastCalls :
        /\ SameKey(i, j) /\ SameKey(j, k)
        /\ calls[i].state = "resolved"
        /\ calls[j].state = "hit"
        /\ calls[j].began - calls[i].doneAt = 60 * 60 * 1000 - 1
        /\ calls[k].seen.has /\ calls[k].seen.data = calls[i].result
        /\ calls[k].fetchId # 0 /\ calls[k].fetchId # calls[i].fetchId

\* C5: a getCachedForecast call returns without invoking fetchFn only if an
\* entry existed when it began and was then less than 1 hour old, and what
\* it returns is that entry; a call that found an entry 1 hour old or older
\* never returns it from the cache.
C5_NeverServesStale ==
    \A j \in ForecastCalls :
        /\ (calls[j].state = "hit" \/ calls[j].fetchId = 0)
              => /\ calls[j].seen.has
                 /\ calls[j].began - calls[j].seen.timestamp < 60 * 60 * 1000
                 /\ calls[j].result = calls[j].seen.data
        /\ ( /\ calls[j].seen.has
             /\ calls[j].began - calls[j].seen.timestamp >= 60 * 60 * 1000
             /\ calls[j].state = "resolved" )
              => calls[j].result # calls[j].seen.data

\* a call that found an entry exactly 1 hour old and returned fresh data
\* of its own fetch
C5_Witness ==
    \E j \in ForecastCalls :
        /\ calls[j].seen.has
        /\ calls[j].began - calls[j].seen.timestamp = 60 * 60 * 1000
        /\ calls[j].state = "resolved"
        /\ calls[j].result.fetchId = calls[j].fetchId

\* what the cache holds now for the key of call i
CurrentSeen(i) ==
    IF calls[i].fn = "forecast" THEN Seen(forecastCache, calls[i].id)
    ELSE SeenSummary(<<calls[i].id, calls[i].date>>)

\* a call for the key of i resolved after i began and before j began
\* (before now, for j = 0)
ResolvedBetween(i, j) ==
    \E m \in 1..Len(calls) :
        /\ SameKey(m, i) /\ calls[m].state = "resolved"
        /\ calls[m].doneSeq > calls[i].settledBefore
        /\ (j # 0 => calls[m].doneSeq <= calls[j].settledBefore)

\* C6: a getCachedForecast or getCachedSummary call whose fetchFn failed is
\* rejected and has stored nothing: unless another call for the key has
\* resolved meanwhile, the cache holds for the key what the failed call
\* found, and the next call for the key finds the same and invokes fetchFn.
C6_FailureStoresNothing ==
    \A i \in 1..Len(calls) :
        calls[i].state = "rejected" =>
            /\ calls[i].fetchId # 0
            /\ ~ResolvedBetween(i, 0) => CurrentSeen(i) = calls[i].seen
            /\ \A j \in 1..Len(calls) :
                  (SameKey(i, j) /\ CompletedBefore(i, j) /\ ~ResolvedBetween(i, j))
                      => /\ calls[j].seen = calls[i].seen
                         /\ calls[j].fetchId # 0
                         /\ calls[j].fetchId # calls[i].fetchId

\* a failed forecast call and a failed summary call, each followed by a
\* call for the same key that fetched again
C6_Witness ==
    \E i, j \in 1..Len(calls) :
        /\ calls[i].state = "rejected" /\ SameKey(i, j) /\ CompletedBefore(i, j)
        /\ calls[j].fetchId # 0
        /\ calls[i].fn = "forecast"
        /\ \E k \in 1..Len(calls) : calls[k].fn = "summary" /\ calls[k].state = "rejected"

\* C36: when the fetchFn of a getCachedForecast call fails, and the call
\* found an expired entry for its key, the forecast cache is left as it is:
\* that entry keeps its value and timestamp and so does every other key.
C36_FailureKeepsExpiredEntry ==
    [][ \A i \in 1..Len(calls) :
            ( /\ calls[i].fn = "forecast" /\ calls[i].state = "pending"
              /\ calls'[i].state = "rejected"
              /\ calls[i].seen.has )
            => forecastCache' = forecastCache ]_vars

\* a failed call that found an expired entry, which is still there, next to
\* the entry of another key
C36_Witness ==
    \E i \in 1..Len(calls) :
        /\ calls[i].fn = "forecast" /\ calls[i].state = "rejected"
        /\ calls[i].seen.has
        /\ calls[i].began - calls[i].seen.timestamp >= CACHE_TTL_MS
        /\ Seen(forecastCache, calls[i].id) = calls[i].seen
        /\ \E k \in DOMAIN forecastCache : k # calls[i].id

\* the miss whose fetch was the last to complete for the key of call i
LastWriter(i) ==
    CHOOSE m \in ForecastCalls :
        /\ SameKey(m, i) /\ calls[m].state = "resolved"
        /\ \A n \in ForecastCalls :
              (SameKey(n, i) /\ calls[n].state = "resolved") => calls[n].doneSeq <= calls[m].doneSeq

\* C7: two getCachedForecast calls for a key that both miss, the second
\* begun before the first one's fetch completed, each invoke fetchFn, each
\* return the result of their own fetch, and the cache is left with the
\* entry of the fetch that completed last.
C7_ConcurrentCallsNotCoalesced ==
    \A i, j \in ForecastCalls :
        ( /\ i < j /\ SameKey(i, j)
          /\ calls[i].state # "hit" /\ calls[j].state # "hit"
          /\ ~CompletedBefore(i, j) )
        => /\ calls[i].fetchId # 0 /\ calls[j].fetchId # 0
           /\ calls[i].fetchId # calls[j].fetchId
           /\ calls[i].state = "resolved" => calls[i].result.fetchId = calls[i].fetchId
           /\ calls[j].state = "resolved" => calls[j].result.fetchId = calls[j].fetchId
           /\ (calls[i].state = "resolved" /\ calls[j].state = "resolved")
                 => /\ forecastCache[calls[i].id].data = calls[LastWriter(i)].result
                    /\ forecastCache[calls[i].id].timestamp = calls[LastWriter(i)].doneAt

\* two overlapping misses, the one begun first completing last, so that
\* the cache is left with the older call's data
C7_Witness ==
    \E i, j \in ForecastCalls :
        /\ i < j /\ SameKey(i, j)
        /\ calls[i].state = "resolved" /\ calls[j].state = "resolved"
        /\ ~CompletedBefore(i, j)
        /\ calls[j].doneSeq < calls[i].doneSeq
        /\ calls[i].result # calls[j].result
        /\ forecastCache[calls[i].id].data = calls[i].result

SummaryCalls == {i \in 1..Len(calls) : calls[i].fn = "summary"}

\* the UTC calendar date on which call i began
BeganOn(i) == calls[i].began \div (24 * 60 * 60 * 1000)

\* the calls that had stored a summary for the location and date of call j
\* when j began
StoredFor(j) ==
    {i \in SummaryCalls :
        /\ calls[i].id = calls[j].id /\ BeganOn(i) = BeganOn(j)
        /\ calls[i].state = "resolved" /\ CompletedBefore(i, j)}

\* C26: after getCachedSummary has stored a summary for a location, every
\* later call for the location on the same UTC date returns the stored
\* summary without invoking fetchFn, and the first call on a different UTC
\* date invokes fetchFn again; the date is the one at which a call begins.
C26_SummaryOncePerUtcDate ==
    \A j \in SummaryCalls :
        /\ StoredFor(j) # {} =>
              /\ calls[j].state = "hit" /\ calls[j].fetchId = 0
              /\ \E i \in StoredFor(j) : calls[j].result = calls[i].result
        /\ StoredFor(j) = {} => calls[j].fetchId # 0

\* a summary fetched and stored, a hit on the same date, and a call on
\* the next date that fetches again
C26_Witness ==
    \E i, j, k \in SummaryCalls :
        /\ calls[i].state = "resolved" /\ i \in StoredFor(j)
        /\ calls[j].state = "hit" /\ calls[j].result = calls[i].result
        /\ calls[k].id = calls[i].id /\ CompletedBefore(i, k)
        /\ BeganOn(k) = BeganOn(i) + 1
        /\ calls[k].fetchId # 0 /\ calls[k].fetchId # calls[i].fetchId

--------------------------------------------------------------------------
(* Claims about the bulk loader *)

\* the ids of the tier-1 locations, in list order
Tier1Ids == [k \in 1..Len(Tier1(resorts)) |-> Tier1(resorts)[k].id]

Min(a, b) == IF a <= b THEN a ELSE b

\* the ids from position 10(k-1)+1 to position 10k of the tier-1 list, or
\* to its end
ExpectedBatch(k) == SubSeq(Tier1Ids, 10 * (k - 1) + 1, Min(10 * k, Len(Tier1Ids)))

\* C8: loadTier1Forecasts takes the tier-1 locations in list order in
\* consecutive batches of 10, the last one holding the remainder, so that n
\* locations give ceil(n/10) batches; it pauses 200 ms once after every
\* batch but the last, and not after the last.
C8_BatchesOfTenWithPauses ==
    LET n == Len(Tier1Ids)
        b == Len(batchLog)
    IN /\ \A k \in 1..b :
             /\ batchLog[k].ids = ExpectedBatch(k)
             /\ Len(batchLog[k].ids) = IF k * 10 <= n THEN 10 ELSE n - 10 * (k - 1)
             /\ Len(batchLog[k].ids) >= 1
       /\ loader.pc = "batch" => pauses = b - 1
       /\ loader.pc = "pause" =>
             /\ pauses = b
             /\ b * 10 < n
             /\ loader.timerDue = batchLog[b].settledAt + 200
       /\ loader.pc = "returned" =>
             /\ b = (n + 9) \div 10
             /\ pauses = IF b = 0 THEN 0 ELSE b - 1

\* 25 tier-1 locations loaded in batches of 10, 10 and 5 with 2 pauses
C8_Witness ==
    /\ loader.pc = "returned"
    /\ Len(Tier1Ids) = 25
    /\ Len(batchLog) = 3
    /\ Len(batchLog[1].ids) = 10 /\ Len(batchLog[2].ids) = 10 /\ Len(batchLog[3].ids) = 5
    /\ pauses = 2

\* the ids of batch k
BatchIdSet(k) == {batchLog[k].ids[p] : p \in 1..Len(batchLog[k].ids)}

\* C9: at most 10 loads of loadTier1Forecasts are in flight at any moment,
\* all of them loads of the batch started last, and a batch starts only
\* when every load of the batch before it has settled and 200 ms or more
\* have passed since.
C9_AtMostTenInFlight ==
    /\ Cardinality({l \in loads : l.by = "bulk"}) <= 10
    /\ \A l \in loads :
          l.by = "bulk" => Len(batchLog) >= 1 /\ l.id \in BatchIdSet(Len(batchLog))
    /\ \A k \in 1..Len(batchLog) - 1 :
          /\ batchLog[k].settledAt # Undefined
          /\ batchLog[k].settledAt >= batchLog[k].startedAt
          /\ batchLog[k + 1].startedAt - batchLog[k].settledAt >= 200

\* the ten loads of a second batch in flight together, 200 ms after the
\* first batch settled
C9_Witness ==
    /\ Len(batchLog) = 2
    /\ Cardinality(loads) = 10
    /\ loader.pc = "batch"
    /\ batchLog[2].startedAt = batchLog[1].settledAt + 200

FinalStatus(id) ==
    id \in DOMAIN loadingStates /\ loadingStates[id] \in {"done", "error"}

HasEvent(id, e) ==
    \E k \in 1..Len(Events(trace, id)) : Events(trace, id)[k] = e

\* C11: a location whose fetch failed gets status error; the cycle goes
\* on: the loader never rejects and never stalls, and when it has returned
\* after a failure every batch was run, every tier-1 location was fetched,
\* the failed ones have status error and all the others are done with
\* their forecast delivered.
C11_FailureDoesNotAbort ==
    /\ loader.pc # "rejected"
    /\ loader.pc = "batch" => loads # {}
    /\ \A id \in DOMAIN trace :
          HasEvent(id, "failed") => /\ loadingStates[id] = "error"
                                    /\ id \notin DOMAIN forecasts
    /\ (loader.pc = "returned" /\ fails > 0) =>
          /\ Len(batchLog) = (Len(Tier1Ids) + 9) \div 10
          /\ Cardinality({k \in 1..Len(Tier1Ids) : HasEvent(Tier1Ids[k], "failed")}) = fails
          /\ \A k \in 1..Len(Tier1Ids) :
                /\ HasEvent(Tier1Ids[k], "fetch")
                /\ ~HasEvent(Tier1Ids[k], "failed") =>
                      /\ loadingStates[Tier1Ids[k]] = "done"
                      /\ Tier1Ids[k] \in DOMAIN forecasts

\* a returned cycle of three batches in which a fetch of the first batch
\* failed and the rest of that batch and the later batches were loaded
C11_Witness ==
    /\ loader.pc = "returned"
    /\ Len(batchLog) = 3
    /\ \E p \in 1..10 :
          /\ HasEvent(batchLog[1].ids[p], "failed")
          /\ \A q \in 1..10 : q # p => loadingStates[batchLog[1].ids[q]] = "done"
    /\ \A q \in 1..Len(batchLog[3].ids) : loadingStates[batchLog[3].ids[q]] = "done"

\* the number of times fetchFn was invoked for resort id
FetchCount(id) ==
    Cardinality({k \in 1..Len(Events(trace, id)) : Events(trace, id)[k] = "fetch"})

\* C27: within one loadTier1Forecasts cycle the fetch of a location is
\* attempted at most once; a location whose fetch failed is not fetched
\* again in the cycle.
C27_OneAttemptPerCycle ==
    /\ \A id \in DOMAIN trace :
          /\ FetchCount(id) <= 1
          /\ HasEvent(id, "failed") =>
                /\ ~\E l \in loads : l.id = id
                /\ trace[id][Len(trace[id])] = "error"
    /\ fetches = Cardinality({id \in DOMAIN trace : HasEvent(id, "fetch")})
    /\ fetches <= Len(Tier1Ids)

\* a cycle that went on to its end after a fetch of the first batch had
\* failed, with one fetch per location in all
C27_Witness ==
    /\ loader.pc = "returned"
    /\ Len(batchLog) >= 2
    /\ \E p \in 1..Len(batchLog[1].ids) :
          /\ HasEvent(batchLog[1].ids[p], "failed")
          /\ FetchCount(batchLog[1].ids[p]) = 1
    /\ fetches = Len(Tier1Ids)

Tier2Ids == {resorts[p].id : p \in {q \in 1..Len(resorts) : resorts[q].tier = 2}}

\* C33: loadTier1Forecasts starts no load and no fetch for a tier-2
\* location and leaves its status and forecast alone.
C33_Tier2Untouched ==
    \A id \in Tier2Ids :
        /\ id \notin DOMAIN trace
        /\ id \notin DOMAIN loadingStates
        /\ id \notin DOMAIN forecasts
        /\ id \notin DOMAIN forecastCache
        /\ \A l \in loads : l.id # id
        /\ \A b \in 1..Len(batchLog) :
              \A k \in 1..Len(batchLog[b].ids) : batchLog[b].ids[k] # id

\* a returned cycle over a list with tier-2 locations between the tier-1
\* locations that were loaded
C33_Witness ==
    /\ loader.pc = "returned"
    /\ Tier2Ids # {}
    /\ \A id \in Tier2Ids : id \notin DOMAIN trace
    /\ \E id \in Tier2Ids : (id + 1) \in DOMAIN trace /\ FinalStatus(id + 1)
    /\ fetches = Len(Tier1Ids)

\* C34: a loadTier1Forecasts call whose fetches all settle completes.
C34_LoaderCompletes ==
    (loader.pc \in {"batch", "pause"}) ~> (loader.pc = "returned")

\* a call that went through batches and pauses and has returned
C34_Witness ==
    /\ loader.pc = "returned"
    /\ Len(batchLog) = 3
    /\ pauses = 2
    /\ fails = 1

--------------------------------------------------------------------------
(* Claims about the load status under bulk and on-demand loads *)

IsStatusEvent(e) == e \in {"idle", "loading", "done", "error"}

\* the values the load status of resort id has been given, in order, after
\* the 'idle' it reads as before anything was set
StatusHistory(id) == <<"idle">> \o SelectSeq(Events(trace, id), IsStatusEvent)

\* C12: every change of a location's load status is idle -> loading,
\* loading -> done or loading -> error.
C12_OnlyForwardTransitions ==
    \A id \in DOMAIN trace :
        \A k \in 1..Len(StatusHistory(id)) - 1 :
            StatusHistory(id)[k] # StatusHistory(id)[k + 1] =>
                <<StatusHistory(id)[k], StatusHistory(id)[k + 1]>> \in
                    {<<"idle", "loading">>, <<"loading", "done">>, <<"loading", "error">>}

\* C13: no location has two loads in flight at the same time, and no load
\* is started for a location whose status is loading.
C13_NoLoadWhileLoading ==
    /\ \A l \in loads : \A m \in loads : l.id = m.id => l = m
    /\ \A id \in DOMAIN trace :
          \A k \in 1..Len(StatusHistory(id)) - 1 :
              ~(StatusHistory(id)[k] = "loading" /\ StatusHistory(id)[k + 1] = "loading")

\* C30: whenever the detail view comes to show a location that has no
\* forecast and is not loading, loadSingleForecast is called for it.
C30_DetailStartsLoad ==
    [][ ( /\ view' # view
          /\ view'.route = "detail"
          /\ view'.id \notin DOMAIN forecasts
          /\ StatusOf(loadingStates, view'.id) # "loading" )
        => Len(Events(trace', view'.id)) > Len(Events(trace, view'.id)) ]_vars

\* C31: when the load that the detail view started for the location it
\* shows ends in status error, the view renders its error state.
C31_FailedLoadShowsError ==
    [][ \A l \in loads :
            ( /\ l.by = "detail" /\ l \notin loads'
              /\ view'.route = "detail" /\ view'.id = l.id
              /\ StatusOf(loadingStates', l.id) = "error" )
            => DetailScreen(resorts', forecasts', loadingStates', l.id) = "error" ]_vars

--------------------------------------------------------------------------
(* Claims about a single load *)

\* C14: a loadSingleForecast call sets the status to loading before its
\* fetch begins; while the fetch is pending the status stays loading; when
\* the fetch succeeds the call delivers the data through setForecast and
\* then sets the status to done; when it fails the call sets the status to
\* error and delivers nothing.
C14_LoadingThenDoneOrError ==
    \A id \in DOMAIN trace :
        LET ev == trace[id]
            pending == \E l \in loads : l.id = id
        IN /\ ev \in { <<"loading", "fetch">>,
                       <<"loading", "fetch", "fetched", "setForecast", "done">>,
                       <<"loading", "fetch", "failed", "error">>,
                       <<"loading", "setForecast", "done">> }
           /\ pending <=> ev = <<"loading", "fetch">>
           /\ loadingStates[id] = IF pending THEN "loading" ELSE ev[Len(ev)]
           /\ HasEvent(id, "setForecast") <=> id \in DOMAIN forecasts
           /\ HasEvent(id, "fetched") =>
                 forecasts[id] = forecastCache[id].data

\* one load pending, one that succeeded and one that failed
C14_Witness ==
    \E a, b, c \in DOMAIN trace :
        /\ trace[a] = <<"loading", "fetch">> /\ loadingStates[a] = "loading"
        /\ trace[b] = <<"loading", "fetch", "fetched", "setForecast", "done">>
        /\ b \in DOMAIN forecasts
        /\ trace[c] = <<"loading", "fetch", "failed", "error">>
        /\ c \notin DOMAIN forecasts

--------------------------------------------------------------------------
(* Claims about the snow quality functions *)

\* the predicate of rule k of the rule list, on the arguments a of a call
RuleHolds(k, a) ==
    CASE k = 1 -> Gt(a.snowfall_cm, 5) /\ Lt(a.temp_c, 0 - 20) /\ Lt(a.wind_kmh, 40)
      [] k = 2 -> Gt(a.snowfall_cm, 2) /\ Ge(a.wind_kmh, 40)
      [] k = 3 -> Le(a.snowAgeHours, 12) /\ Lt(a.temp_c, 0 - 50) /\ Lt(a.humidity_pct, 70)
      [] k = 4 -> Le(a.snowAgeHours, 24) /\ Ge(a.temp_c, 0 - 50) /\ Lt(a.temp_c, 20)
      [] k = 5 -> Ge(a.temp_c, 20)
      [] k = 6 -> Gt(a.snowAgeHours, 24) /\ Lt(a.temp_c, 0 - 20)
      [] OTHER -> TRUE

RuleLabels ==
    <<"Powder", "Wind Affected", "Packed Powder", "Soft", "Spring/Corn", "Icy", "Variable">>

FirstRule(a) == CHOOSE k \in 1..7 : RuleHolds(k, a) /\ \A j \in 1..(k - 1) : ~RuleHolds(j, a)

QualityReturned == arg.fn = "getSnowQuality" /\ ret.fn = "getSnowQuality"

\* C15: getSnowQuality returns the label of the first rule, in the order
\* 1..7 of the rule list, whose predicate holds (7, Variable, when none
\* holds); inputs satisfying both rule 1 and rule 3 yield Powder.
C15_FirstMatchingRuleWins ==
    QualityReturned =>
        /\ ret.value.label = RuleLabels[FirstRule(arg)]
        /\ RuleHolds(1, arg) /\ RuleHolds(3, arg) => ret.value.label = "Powder"

C15_Witness ==
    /\ QualityReturned
    /\ RuleHolds(1, arg) /\ RuleHolds(3, arg)
    /\ ret.value.label = "Powder"

\* C16: getSnowQuality is total: every combination of numeric inputs
\* yields exactly one of the seven labels, Powder, Wind Affected, Packed
\* Powder, Soft, Spring/Corn, Icy, Variable, with priority 1..7 in that order.
C16_TotalSevenLabels ==
    QualityReturned =>
        Cardinality({k \in 1..7 : ret.value.label = RuleLabels[k] /\ ret.value.priority = k}) = 1

C16_Witness ==
    /\ QualityReturned
    /\ \A f \in {"temp_c", "wind_kmh", "snowfall_cm", "snowAgeHours", "humidity_pct"} :
          arg[f] # NaN
    /\ ret.value.label = "Icy" /\ ret.value.priority = 6

SnowAgeReturned == arg.fn = "getSnowAgeHours" /\ ret.fn = "getSnowAgeHours"

\* the offsets d in 0..72 with idx - d >= 0 and hourly[idx - d] > 0.1
Offsets(hourly, idx) ==
    {d \in 0..72 : idx - d >= 0 /\ idx - d < Len(hourly) /\ hourly[idx - d + 1] > 1}

\* C17: getSnowAgeHours(hourly, idx) is the smallest offset d in 0..72
\* with idx - d >= 0 and hourly[idx - d] > 0.1, and 72 when there is none;
\* so it lies in 0..72, is 0 when hourly[idx] > 0.1, is 72 for an all-zero
\* series and is 72 when the only qualifying value is 73 or more hours back.
C17_SmallestOffsetOrCap ==
    SnowAgeReturned =>
        LET hourly == arg.hourlySnowfall
            idx == arg.currentHourIndex
            ds == Offsets(hourly, idx)
        IN /\ ret.value = IF ds = {} THEN 72 ELSE CHOOSE d \in ds : \A e \in ds : d <= e
           /\ ret.value \in 0..72
           /\ 0 \in ds => ret.value = 0
           /\ (\A k \in 1..Len(hourly) : hourly[k] = 0) => ret.value = 72

C17_Witness ==
    /\ SnowAgeReturned
    /\ \E k \in 1..Len(arg.hourlySnowfall) :
          /\ arg.hourlySnowfall[k] > 1
          /\ arg.currentHourIndex - (k - 1) >= 73
    /\ \E k \in 1..Len(arg.hourlySnowfall) :
          arg.hourlySnowfall[k] = 1 /\ arg.currentHourIndex - (k - 1) \in 0..72
    /\ ret.value = 72

BestWindowReturned ==
    arg.fn = "getBestWindow" /\ ret.fn = "getBestWindow" /\ arg.dailyData # <<>>

\* snowfall_sum*3 - rain_sum*5 - (10 if wind max > 50) + (5 if temp max < 0), in tenths
DayScore(d) ==
    d.snowfall_sum * 3 - d.rain_sum * 5
        - (IF d.windspeed_10m_max > 50 THEN 100 ELSE 0)
        + (IF d.temperature_2m_max < 0 THEN 50 ELSE 0)

IsDayA(d) ==
    d.snowfall_sum = 200 /\ d.rain_sum = 0 /\ d.windspeed_10m_max = 20
        /\ d.temperature_2m_max = 0 - 80

IsDayB(d) ==
    d.snowfall_sum = 20 /\ d.rain_sum = 0 /\ d.windspeed_10m_max = 30
        /\ d.temperature_2m_max = 0 - 50

\* C18: getBestWindow returns a day whose score is the maximum over the
\* input days, with that day's own index and date; day A scores 65, day B
\* scores 11, and of the two A is selected.
C18_MaximumScoreDay ==
    BestWindowReturned =>
        LET days == arg.dailyData
            i == ret.value.index + 1
        IN /\ i \in 1..Len(days)
           /\ ret.value.score = DayScore(days[i])
           /\ ret.value.date = days[i].time
           /\ \A j \in 1..Len(days) : DayScore(days[j]) <= ret.value.score
           /\ \A j \in 1..Len(days) :
                 /\ IsDayA(days[j]) => DayScore(days[j]) = 650
                 /\ IsDayB(days[j]) => DayScore(days[j]) = 110
           /\ Len(days) = 2 /\ IsDayB(days[1]) /\ IsDayA(days[2]) => ret.value.index = 1

C18_Witness ==
    /\ BestWindowReturned
    /\ Len(arg.dailyData) = 3
    /\ IsDayB(arg.dailyData[1]) /\ IsDayA(arg.dailyData[2])
    /\ arg.dailyData[3].windspeed_10m_max > 50
    /\ ret.value = [index |-> 1, date |-> 20260302, score |-> 650]

\* C19: when several days share the maximum score, getBestWindow returns
\* the one with the smallest index.
C19_FirstOfTiedDays ==
    BestWindowReturned =>
        \A j \in 1..Len(arg.dailyData) :
            DayScore(arg.dailyData[j]) = ret.value.score => ret.value.index <= j - 1

C19_Witness ==
    /\ BestWindowReturned
    /\ Len(arg.dailyData) = 3
    /\ DayScore(arg.dailyData[1]) < DayScore(arg.dailyData[2])
    /\ DayScore(arg.dailyData[2]) = DayScore(arg.dailyData[3])
    /\ arg.dailyData[2] # [arg.dailyData[3] EXCEPT !.time = 20260302]
    /\ ret.value.index = 1

\* C39: when temp_c >= -5 or snowAgeHours > 12, the label does not depend
\* on humidity_pct: every other humidity, a missing one included, gives the
\* label that was returned.
C39_HumidityOnlyInRule3 ==
    ( /\ ret.fn = "getSnowQuality"
      /\ (Ge(arg.temp_c, 0 - 50) \/ Gt(arg.snowAgeHours, 12)) )
    => \A h \in Humidities \cup {0, 50, 100, Null} :
           GetSnowQuality(arg.temp_c, arg.wind_kmh, arg.snowfall_cm,
                          arg.snowAgeHours, h) = ret.value

\* a cold hour with snow 13 hours old and dry air: not Packed Powder
C39_Witness ==
    /\ ret.fn = "getSnowQuality"
    /\ arg.temp_c = 0 - 80 /\ arg.snowAgeHours = 13 /\ arg.humidity_pct = 60
    /\ arg.snowfall_cm = 0
    /\ ret.value = Variable
    /\ GetSnowQuality(arg.temp_c, arg.wind_kmh, arg.snowfall_cm, 12, 60) = PackedPowder
    /\ GetSnowQuality(arg.temp_c, arg.wind_kmh, arg.snowfall_cm, 12, 70) = Variable

\* an array of n entries with 0 in place of every missing entry of arr
ZeroFilled(arr, n) ==
    [k \in 1..n |-> IF k <= Len(arr) /\ arr[k] # Null THEN arr[k] ELSE 0]

ZeroFilledHourly(hourly) ==
    [f \in DOMAIN hourly |-> ZeroFilled(hourly[f], 2)]

ZeroFilledDaily(daily) ==
    [f \in DOMAIN daily |-> ZeroFilled(daily[f], Len(daily.time))]

ZeroFilledForecast(fc) == Daily(ZeroFilled(fc.snow, Len(fc.snow)))

--------------------------------------------------------------------------
(* Claims about the alert check that follows the bulk load *)

DashTier1Ids == {Tier1(resorts)[k].id : k \in 1..Len(Tier1(resorts))}

Settled(states, id) == StatusOf(states, id) \in {"done", "error"}

C29_CheckReadsDeliveredForecasts ==
    \A i \in 1..Len(checks) :
        \A id \in DashTier1Ids :
            (id \in DOMAIN checks[i].store /\ checks[i].states[id] = "done")
                => /\ id \in DOMAIN checks[i].read
                   /\ checks[i].read[id] = checks[i].store[id]

==========================================================================
